---- MODULE Spec2Model ----
(***************************************************************************)
(* A model of raftmod's connectivity and secure-persistence core:          *)
(*   - the outbound connection pool (raft_client_pool.go),                 *)
(*   - the routing table and the membership bridge (server_lookup.go,      *)
(*     server.go, raft_server_serf.go),                                    *)
(*   - the snapshot cipher (stream_encrypter.go, the encrypted snapshot    *)
(*     store).                                                             *)
(* Each component has its own specification (SpecPool, SpecPoolClose,      *)
(* SpecEndpoint, SpecLookup, SpecLookupAPI, SpecCipher); the variables of  *)
(* the other components stay at their initial values.                      *)
(***************************************************************************)
EXTENDS Integers, Sequences, FiniteSets, TLC

VARIABLES
    \* ---- connection pool ----
    clients,        \* sync.Map: raft address -> absent | connectingClient | clientConnection
    pc,             \* position of each GetAPIConn caller
    target,         \* the raftAddress argument of each caller
    waitOn,         \* the stub (named by its owner) a caller is blocked on
    result,         \* what each call returned
    dialed,         \* whether the call entered doConnect
    staleAtStart,   \* connections whose watch had already ended when the call started
    hc,             \* position of the doHealthCheck goroutine of each connection
    hcEnd,          \* how that goroutine ended
    evicted,        \* connections whose pool entry removeClient deleted
    connClosed,     \* connections closed by Close
    closeOnce,      \* sync.Once of Close has fired
    RaftServiceName \* the configured health-check service name

poolVars == <<clients, pc, target, waitOn, result, dialed, staleAtStart, hc, hcEnd,
              evicted, connClosed, closeOnce, RaftServiceName>>

\* ---- routing table and membership bridge ----
VARIABLES
    addressToServer,     \* implServerLookup.addressToServer
    idToServer,          \* implServerLookup.idToServer
    lastEvent,           \* the event eventHandlerLAN processed last
    prevAddressToServer, \* addressToServer before that event
    prevIdToServer,      \* idToServer before that event
    lastCall,            \* the ServerLookup method called last, its argument and result
    servers,             \* the slice a Servers() call returned, as its caller holds it
    serversAtReturn      \* the elements of that slice when Servers() returned

lookupVars == <<addressToServer, idToServer, lastEvent, prevAddressToServer,
                prevIdToServer, lastCall, servers, serversAtReturn>>

\* ---- snapshot cipher ----
VARIABLES
    token,      \* implEncryptedSnapshotStore.token
    cpc,        \* where the snapshot's life cycle stands
    meta,       \* index and term of the snapshot (its stored metadata)
    sinkBytes,  \* the bytes the underlying sink holds
    enc,        \* implStreamEncrypter.stream: key, IV and position of the CTR stream
    plain,      \* the bytes the caller asked to write, as they were before Write
    wbuf,       \* the caller's buffer after the last Write returned
    dec,        \* implStreamDecrypter.stream
    srcPos,     \* read offset of the underlying source
    output,     \* the bytes Read has delivered
    lastRead,   \* n of the last Read
    lastReadErr, \* the error of the source's Read and the error Read returned
    sinkSt,     \* the delegate's sink: none, open, closed or cancelled
    sourceSt,   \* the delegate's source: none, open or closed
    partial     \* a Write of which the sink took a part: how far, and its retry

cipherVars == <<token, cpc, meta, sinkBytes, enc, plain, wbuf, dec, srcPos, output,
                lastRead, lastReadErr, sinkSt, sourceSt, partial>>

\* ---- callers of the pool's Close and Destroy ----
VARIABLES
    closePc,     \* position of each Close caller
    closeRet,    \* what its call returned
    closeRuns,   \* how often the function handed to closeOnce.Do has been started
    closeCount,  \* how often conn.Close() has been called on each connection
    toVisit,     \* the keys the running Range has not visited yet
    onceHolder,  \* the caller that holds the mutex of closeOnce, or 0
    dialsAtClose \* the calls that were in doConnect or before Store when Close ran

closerVars == <<closePc, closeRet, closeRuns, closeCount, toVisit, onceHolder,
                dialsAtClose>>

\* ---- endpoint derivation ----
VARIABLES
    RaftAddress,       \* property raft-server.listen-address
    RPCBean,           \* property raft-server.rpc-bean
    rpcListenAddress,  \* property <RPCBean>.listen-address
    portDiff,          \* implRaftClientPool.portDiff
    built,             \* whether PostConstruct has run, and how it ended
    lastEndpoint       \* the last GetAPIEndpoint call: its argument and its results

endpointVars == <<RaftAddress, RPCBean, rpcListenAddress, portDiff, built, lastEndpoint>>

\* ---- raft transport (tcp_stream_layer.go) ----
VARIABLES
    advertise,     \* the advertise argument of newTCPTransport (a net.Addr, or nil)
    listenerAddr,  \* what listener.Addr() returns
    tpc,           \* whether newTCPTransport has run, and how it ended
    transErr,      \* the error newTCPTransport returned
    creatorCalls,  \* how often transportCreator has been invoked
    stream,        \* the TCPStreamLayer handed to transportCreator
    effective,     \* what stream.Addr() returned inside newTCPTransport
    addrResult     \* what the last Addr() call on the transport's stream returned

transportVars == <<advertise, listenerAddr, tpc, transErr, creatorCalls, stream,
                   effective, addrResult>>

\* ---- the routing table's lock and its callers ----
VARIABLES
    mutexW,      \* the goroutine that holds implServerLookup.mutex for writing, or 0
    mutexR,      \* the goroutines that hold it for reading
    wpc,         \* position of each AddServer or RemoveServer call
    wop,         \* what that call is: the method and its argument
    rpc,         \* position of each ServerAddr, Server or Servers call
    sawHalf      \* whether that call read the maps between a writer's two writes

lockVars == <<mutexW, mutexR, wpc, wop, rpc, sawHalf>>

\* ---- the membership event channel ----
VARIABLES
    serfChLAN,   \* the events in the channel, oldest first
    sent,        \* every event the membership engine has sent, in order
    handlerPc    \* eventHandlerLAN: in its loop, or returned

bridgeVars == <<serfChLAN, sent, handlerPc>>

\* ---- the raft server (both versions of implRaftServer in raft_server.go) ----
VARIABLES
    raft,        \* the field t.raft: "nil" or "inst"
    raftSt,      \* the consensus instance NewRaft made: none, running or shutdown
    transport,   \* t.transport: nil, open or closed
    listener,    \* t.listener: nil, open or closed
    servePc,     \* position of the Serve call
    serveErr,    \* what NewRaft returned and Serve returns
    running,     \* t.running (the version with Stop)
    stopPc,      \* position of each Stop or Destroy call
    stopAfterServe, \* whether Serve had returned nil when that call started
    alive,       \* t.alive (the version with Shutdown)
    shutdownOnce, \* the done flag of t.shutdownOnce
    shutdownCh,  \* t.shutdownCh: open or closed
    shutPc,      \* position of each Shutdown or Destroy call
    shutHolder,  \* the caller that runs the function of shutdownOnce, or 0
    serveAtShutdown, \* where Serve stood when the first Shutdown call started
    serfMembers  \* the members the membership engine knows when Serve runs

raftVars == <<raft, raftSt, transport, listener, servePc, serveErr>>
stopVars == <<running, stopPc, stopAfterServe>>
shutdownVars == <<alive, shutdownOnce, shutdownCh, shutPc, shutHolder, serveAtShutdown,
                  serfMembers>>

serverVars == <<lockVars, bridgeVars, raftVars, stopVars, shutdownVars>>

vars == <<poolVars, lookupVars, cipherVars, closerVars, endpointVars, transportVars,
          serverVars>>

(***************************************************************************)
(* Connection pool                                                         *)
(***************************************************************************)

\* Number of GetAPIConn calls (one goroutine each).
NumCallers == 3

Callers == 1..NumCallers

\* A raft address is kept as the fields strings.Split(addr, ":") yields.
GoodAddr == <<"h1", "8000">>
BadAddr  == <<"h2">>
PoolAddrs == {GoodAddr, BadAddr}

\* strconv.Atoi on the port strings that occur; any other string is an error.
AtoiTable == [s \in {"7000", "7001", "8000", "9000"} |->
                 CASE s = "7000" -> 7000 [] s = "7001" -> 7001
                   [] s = "8000" -> 8000 [] s = "9000" -> 9000]
AtoiOk(s) == s \in DOMAIN AtoiTable
Atoi(s) == AtoiTable[s]

\* getHostAndPortNumber: exactly two fields and a numeric port.
HostAndPortOk(addr) == Len(addr) = 2 /\ AtoiOk(addr[Len(addr)])

\* GetAPIEndpoint fails exactly when getHostAndPortNumber fails.
GetAPIEndpointOk(addr) == HostAndPortOk(addr)

Absent == [t |-> "absent"]
Stub(c) == [t |-> "stub", owner |-> c]      \* *connectingClient created by call c
Client(k) == [t |-> "conn", conn |-> k]     \* *clientConnection holding connection k
NoResult == [t |-> "none"]
Err(c) == [t |-> "err", of |-> c]           \* the error of call c's doConnect
Conn(k) == [t |-> "conn", conn |-> k]

\* A connection is named by the call that dialed it (a call dials at most once).
Conns == Callers

\* defer close(stub.waitCh): the stubs of a call are closed when it returns.
StubClosed(o) == pc[o] = "done"

\* strconv.Itoa on the ports that occur.
Itoa(n) == ToString(n)

InitPool ==
    /\ clients = [a \in PoolAddrs |-> Absent]
    /\ pc = [c \in Callers |-> "idle"]
    /\ target = [c \in Callers |-> GoodAddr]
    /\ waitOn = [c \in Callers |-> 0]
    /\ result = [c \in Callers |-> NoResult]
    /\ dialed = [c \in Callers |-> FALSE]
    /\ staleAtStart = [c \in Callers |-> {}]
    /\ hc = [k \in Conns |-> "off"]
    /\ hcEnd = [k \in Conns |-> "none"]
    /\ evicted = {}
    /\ connClosed = {}
    /\ closeOnce = FALSE
    /\ RaftServiceName \in {"", "raft"}

\* The watch loop of connection k has ended and removeClient has returned.
WatchEnded(k) == hc[k] = "done" /\ hcEnd[k] \in {"stream", "evicted"}

\* A goroutine calls GetAPIConn(a).
StartCall(c) ==
    /\ pc[c] = "idle"
    /\ \E a \in PoolAddrs : target' = [target EXCEPT ![c] = a]
    /\ pc' = [pc EXCEPT ![c] = "load"]
    /\ staleAtStart' = [staleAtStart EXCEPT ![c] = {k \in Conns : WatchEnded(k)}]
    /\ UNCHANGED <<clients, waitOn, result, dialed, hc, hcEnd, evicted, connClosed,
                   closeOnce, RaftServiceName>>
    /\ UNCHANGED <<lookupVars, cipherVars, closerVars, endpointVars, transportVars, serverVars>>

\* One placeholder for the whole pool: while any dial is in flight, a Load of any
\* key finds its placeholder.
MapLoadAnyStub(m, a) ==
    IF \E b \in DOMAIN m : m[b].t = "stub" /\ ~StubClosed(m[b].owner)
    THEN m[CHOOSE b \in DOMAIN m : m[b].t = "stub" /\ ~StubClosed(m[b].owner)]
    ELSE m[a]

\* sync.Map.Load(key): the value stored under that key
MapLoad(m, a) == m[a]

\* tryAgain: t.clients.Load(raftAddress)
LoadStep(c) ==
    /\ pc[c] = "load"
    /\ LET e == MapLoad(clients, target[c]) IN
         CASE e.t = "conn" ->
                /\ pc' = [pc EXCEPT ![c] = "done"]
                /\ result' = [result EXCEPT ![c] = Conn(e.conn)]
                /\ UNCHANGED waitOn
           [] e.t = "stub" ->
                /\ pc' = [pc EXCEPT ![c] = "wait"]
                /\ waitOn' = [waitOn EXCEPT ![c] = e.owner]
                /\ UNCHANGED result
           [] OTHER ->
                /\ pc' = [pc EXCEPT ![c] = "los"]
                /\ UNCHANGED <<waitOn, result>>
    /\ UNCHANGED <<clients, target, dialed, staleAtStart, hc, hcEnd, evicted,
                   connClosed, closeOnce, RaftServiceName>>
    /\ UNCHANGED <<lookupVars, cipherVars, closerVars, endpointVars, transportVars, serverVars>>

\* <- stub.waitCh ; goto tryAgain
WaitStep(c) ==
    /\ pc[c] = "wait"
    /\ StubClosed(waitOn[c])
    /\ pc' = [pc EXCEPT ![c] = "load"]
    /\ UNCHANGED <<clients, target, waitOn, result, dialed, staleAtStart, hc, hcEnd,
                   evicted, connClosed, closeOnce, RaftServiceName>>
    /\ UNCHANGED <<lookupVars, cipherVars, closerVars, endpointVars, transportVars, serverVars>>

\* LoadOrStore replaced by a plain Store: it never reports "loaded".
LoadOrStoreNeverLoaded(m, a) == FALSE

\* sync.Map.LoadOrStore: loaded iff the key is present.
LoadOrStoreLoaded(m, a) == m[a].t # "absent"

\* stub := &connectingClient{...}; actual, loaded := t.clients.LoadOrStore(raftAddress, stub)
LoadOrStoreStep(c) ==
    /\ pc[c] = "los"
    /\ LET a == target[c]
           e == clients[a] IN
         IF LoadOrStoreLoaded(clients, a)
         THEN CASE e.t = "conn" ->
                     /\ pc' = [pc EXCEPT ![c] = "done"]
                     /\ result' = [result EXCEPT ![c] = Conn(e.conn)]
                     /\ UNCHANGED <<clients, waitOn, dialed>>
                [] OTHER ->
                     /\ pc' = [pc EXCEPT ![c] = "wait"]
                     /\ waitOn' = [waitOn EXCEPT ![c] = e.owner]
                     /\ UNCHANGED <<clients, result, dialed>>
         ELSE /\ clients' = [clients EXCEPT ![a] = Stub(c)]
              /\ pc' = [pc EXCEPT ![c] = "dial"]
              /\ dialed' = [dialed EXCEPT ![c] = TRUE]
              /\ UNCHANGED <<waitOn, result>>
    /\ UNCHANGED <<target, staleAtStart, hc, hcEnd, evicted, connClosed, closeOnce,
                   RaftServiceName>>
    /\ UNCHANGED <<lookupVars, cipherVars, closerVars, endpointVars, transportVars, serverVars>>

\* doConnect returns an error (GetAPIEndpoint or grpc.Dial); GetAPIConn returns it.
DialFail(c) ==
    /\ pc[c] = "dial"
    /\ pc' = [pc EXCEPT ![c] = "done"]
    /\ result' = [result EXCEPT ![c] = Err(c)]
    /\ UNCHANGED <<clients, target, waitOn, dialed, staleAtStart, hc, hcEnd, evicted,
                   connClosed, closeOnce, RaftServiceName>>
    /\ UNCHANGED <<lookupVars, cipherVars, closerVars, endpointVars, transportVars, serverVars>>

\* A health goroutine for every connection, whatever the configuration.
HealthCheckAlways(name) == TRUE

\* if t.RaftServiceName != "" { go t.doHealthCheck(client) }
HealthCheckEnabled(name) == name # ""

\* doConnect succeeds: the connection exists and its health check goroutine starts.
DialOk(c) ==
    /\ pc[c] = "dial"
    /\ GetAPIEndpointOk(target[c])
    /\ pc' = [pc EXCEPT ![c] = "store"]
    /\ hc' = [hc EXCEPT ![c] = IF HealthCheckEnabled(RaftServiceName) THEN "check" ELSE "off"]
    /\ UNCHANGED <<clients, target, waitOn, result, dialed, staleAtStart, hcEnd, evicted,
                   connClosed, closeOnce, RaftServiceName>>
    /\ UNCHANGED <<lookupVars, cipherVars, closerVars, endpointVars, transportVars, serverVars>>

\* t.clients.Store(raftAddress, client); return client.conn (and the deferred close)
StoreStep(c) ==
    /\ pc[c] = "store"
    /\ clients' = [clients EXCEPT ![target[c]] = Client(c)]
    /\ pc' = [pc EXCEPT ![c] = "done"]
    /\ result' = [result EXCEPT ![c] = Conn(c)]
    /\ UNCHANGED <<target, waitOn, dialed, staleAtStart, hc, hcEnd, evicted, connClosed,
                   closeOnce, RaftServiceName>>
    /\ UNCHANGED <<lookupVars, cipherVars, closerVars, endpointVars, transportVars, serverVars>>

GetAPIConn(c) ==
    \/ StartCall(c)
    \/ LoadStep(c)
    \/ WaitStep(c)
    \/ LoadOrStoreStep(c)
    \/ DialFail(c)
    \/ DialOk(c)
    \/ StoreStep(c)

\* client.serviceHC.Check: an error (Unimplemented or another) ends the goroutine.
HealthCheckCall(k) ==
    /\ hc[k] = "check"
    /\ \/ /\ hc' = [hc EXCEPT ![k] = "done"]
          /\ \E r \in {"unimplemented", "checkerr"} : hcEnd' = [hcEnd EXCEPT ![k] = r]
       \/ /\ hc' = [hc EXCEPT ![k] = "watch"]
          /\ UNCHANGED hcEnd
    /\ UNCHANGED <<clients, pc, target, waitOn, result, dialed, staleAtStart, evicted,
                   connClosed, closeOnce, RaftServiceName>>
    /\ UNCHANGED <<lookupVars, cipherVars, closerVars, endpointVars, transportVars, serverVars>>

\* client.serviceHC.Watch: an error ends the goroutine, else the Recv loop starts.
HealthWatchOpen(k) ==
    /\ hc[k] = "watch"
    /\ \/ /\ hc' = [hc EXCEPT ![k] = "done"]
          /\ hcEnd' = [hcEnd EXCEPT ![k] = "watcherr"]
       \/ /\ hc' = [hc EXCEPT ![k] = "recv"]
          /\ UNCHANGED hcEnd
    /\ UNCHANGED <<clients, pc, target, waitOn, result, dialed, staleAtStart, evicted,
                   connClosed, closeOnce, RaftServiceName>>
    /\ UNCHANGED <<lookupVars, cipherVars, closerVars, endpointVars, transportVars, serverVars>>

\* w.Recv() returns an error or EOF: break out of the loop (a status message only
\* logs and leaves the state as it is).
HealthWatchEnd(k) ==
    /\ hc[k] = "recv"
    /\ hc' = [hc EXCEPT ![k] = "rm"]
    /\ UNCHANGED <<clients, pc, target, waitOn, result, dialed, staleAtStart, hcEnd,
                   evicted, connClosed, closeOnce, RaftServiceName>>
    /\ UNCHANGED <<lookupVars, cipherVars, closerVars, endpointVars, transportVars, serverVars>>

\* removeClient without the type and identity test: any entry matches.
RemoveMatchesAny(e, k) == e.t # "absent"

\* removeClient: the entry is a *clientConnection and client.conn == conn.
RemoveMatches(e, k) == e.t = "conn" /\ e.conn = k

\* removeClient: t.clients.Load(raftAddress) and the comparison.
RemoveLoad(k) ==
    /\ hc[k] = "rm"
    /\ IF RemoveMatches(clients[target[k]], k)
       THEN /\ hc' = [hc EXCEPT ![k] = "del"]
            /\ UNCHANGED hcEnd
       ELSE /\ hc' = [hc EXCEPT ![k] = "done"]
            /\ hcEnd' = [hcEnd EXCEPT ![k] = "stream"]
    /\ UNCHANGED <<clients, pc, target, waitOn, result, dialed, staleAtStart, evicted,
                   connClosed, closeOnce, RaftServiceName>>
    /\ UNCHANGED <<lookupVars, cipherVars, closerVars, endpointVars, transportVars, serverVars>>

\* removeClient: t.clients.Delete(raftAddress)
RemoveDelete(k) ==
    /\ hc[k] = "del"
    /\ clients' = [clients EXCEPT ![target[k]] = Absent]
    /\ evicted' = evicted \cup {k}
    /\ hc' = [hc EXCEPT ![k] = "done"]
    /\ hcEnd' = [hcEnd EXCEPT ![k] = "evicted"]
    /\ UNCHANGED <<pc, target, waitOn, result, dialed, staleAtStart, connClosed,
                   closeOnce, RaftServiceName>>
    /\ UNCHANGED <<lookupVars, cipherVars, closerVars, endpointVars, transportVars, serverVars>>

doHealthCheck(k) ==
    \/ HealthCheckCall(k)
    \/ HealthWatchOpen(k)
    \/ HealthWatchEnd(k)
    \/ RemoveLoad(k)
    \/ RemoveDelete(k)

\* Close: closeOnce.Do(Range: close every *clientConnection's conn)
ClosePool ==
    /\ IF closeOnce
       THEN UNCHANGED <<closeOnce, connClosed>>
       ELSE /\ closeOnce' = TRUE
            /\ connClosed' = connClosed \cup
                   {k \in Conns : \E a \in PoolAddrs : clients[a] = Client(k)}
    /\ UNCHANGED <<clients, pc, target, waitOn, result, dialed, staleAtStart, hc, hcEnd,
                   evicted, RaftServiceName>>
    /\ UNCHANGED <<lookupVars, cipherVars, closerVars, endpointVars, transportVars, serverVars>>

NextPool ==
    \/ \E c \in Callers : GetAPIConn(c)
    \/ \E k \in Conns : doHealthCheck(k)
    \/ ClosePool

\* The first Close, run without interruption while calls are in doConnect or
\* between doConnect and Store; these calls are recorded.
CloseDuringDials ==
    /\ ~closeOnce
    /\ \E c \in Callers : pc[c] \in {"dial", "store"}
    /\ closeOnce' = TRUE
    /\ connClosed' = connClosed \cup
           {k \in Conns : \E a \in PoolAddrs : clients[a] = Client(k)}
    /\ dialsAtClose' = {c \in Callers : pc[c] \in {"dial", "store"}}
    /\ UNCHANGED <<clients, pc, target, waitOn, result, dialed, staleAtStart, hc, hcEnd,
                   evicted, RaftServiceName>>
    /\ UNCHANGED <<closePc, closeRet, closeRuns, closeCount, toVisit, onceHolder>>
    /\ UNCHANGED <<lookupVars, cipherVars, endpointVars, transportVars, serverVars>>

NextPoolShutdown ==
    \/ \E c \in Callers : GetAPIConn(c)
    \/ CloseDuringDials

(***************************************************************************)
(* Close and Destroy, call by call (sync.Once, sync.Map.Range)             *)
(***************************************************************************)

\* Number of Close or Destroy calls (one goroutine each).
NumClosers == 2

Closers == 1..NumClosers

\* A Once whose done flag no caller ever sees set.
OnceNeverFired(done) == FALSE

\* sync.Once.Do: o.done is set, the function is not called again
OnceFired(done) == done

InitCloser ==
    /\ closePc = [i \in Closers |-> "idle"]
    /\ closeRet = [i \in Closers |-> "none"]
    /\ closeRuns = 0
    /\ closeCount = [k \in Conns |-> 0]
    /\ toVisit = {}
    /\ onceHolder = 0
    /\ dialsAtClose = {}

\* The method a caller calls: the first one Close, the others Destroy, whose body
\* is "return t.Close()".
CloseVia(i) == IF i = 1 THEN "Close" ELSE "Destroy"

\* A goroutine calls Close, or Destroy, which calls Close.
CloseStart(i) ==
    /\ closePc[i] = "idle"
    /\ closePc' = [closePc EXCEPT ![i] = "do"]
    /\ UNCHANGED <<closeRet, closeRuns, closeCount, toVisit, onceHolder, dialsAtClose>>
    /\ UNCHANGED <<poolVars, lookupVars, cipherVars, endpointVars, transportVars, serverVars>>

\* t.closeOnce.Do(f): return if done is set; else take the mutex of the Once (a
\* caller blocks while another one runs f) and start f, the Range over t.clients.
OnceDo(i) ==
    /\ closePc[i] = "do"
    /\ IF OnceFired(closeOnce)
       THEN /\ closePc' = [closePc EXCEPT ![i] = "done"]
            /\ closeRet' = [closeRet EXCEPT ![i] = "nil"]
            /\ UNCHANGED <<closeRuns, toVisit, onceHolder, dialsAtClose>>
       ELSE /\ onceHolder = 0
            /\ onceHolder' = i
            /\ closePc' = [closePc EXCEPT ![i] = "range"]
            /\ toVisit' = PoolAddrs
            /\ closeRuns' = closeRuns + 1
            /\ UNCHANGED dialsAtClose
            /\ UNCHANGED closeRet
    /\ UNCHANGED closeCount
    /\ UNCHANGED <<poolVars, lookupVars, cipherVars, endpointVars, transportVars, serverVars>>

\* Range calls the function on one key, with the value the key holds now:
\* client.conn.Close() if it is a *clientConnection.
RangeVisit(i) ==
    /\ closePc[i] = "range"
    /\ \E a \in toVisit :
          /\ toVisit' = toVisit \ {a}
          /\ IF clients[a].t = "conn"
             THEN /\ closeCount' = [closeCount EXCEPT ![clients[a].conn] = @ + 1]
                  /\ connClosed' = connClosed \cup {clients[a].conn}
             ELSE UNCHANGED <<closeCount, connClosed>>
    /\ UNCHANGED <<closePc, closeRet, closeRuns, onceHolder, dialsAtClose>>
    /\ UNCHANGED <<clients, pc, target, waitOn, result, dialed, staleAtStart, hc, hcEnd,
                   evicted, closeOnce, RaftServiceName>>
    /\ UNCHANGED <<lookupVars, cipherVars, endpointVars, transportVars, serverVars>>

\* Range is through: done is set, the mutex is released, Close returns nil.
RangeEnd(i) ==
    /\ closePc[i] = "range"
    /\ toVisit = {}
    /\ closeOnce' = TRUE
    /\ onceHolder' = 0
    /\ closePc' = [closePc EXCEPT ![i] = "done"]
    /\ closeRet' = [closeRet EXCEPT ![i] = "nil"]
    /\ UNCHANGED <<closeRuns, closeCount, toVisit, dialsAtClose>>
    /\ UNCHANGED <<clients, pc, target, waitOn, result, dialed, staleAtStart, hc, hcEnd,
                   evicted, connClosed, RaftServiceName>>
    /\ UNCHANGED <<lookupVars, cipherVars, endpointVars, transportVars, serverVars>>

Close(i) ==
    \/ CloseStart(i)
    \/ OnceDo(i)
    \/ RangeVisit(i)
    \/ RangeEnd(i)

\* No doHealthCheck goroutine exists where it is used: RaftServiceName is empty.
NextPoolClose ==
    \/ \E c \in Callers : GetAPIConn(c)
    \/ \E i \in Closers : Close(i)


(***************************************************************************)
(* Endpoint derivation (PostConstruct, GetAPIEndpoint, utils.go)           *)
(***************************************************************************)

\* The empty string: strings.Split("", ":") yields one empty field.
EmptyString == <<"">>

\* Values of raft-server.listen-address: unset, ":8000", "0.0.0.0:7000", "h1".
RaftAddresses == {EmptyString, <<"", "8000">>, <<"0.0.0.0", "7000">>, <<"h1">>}

\* Values of raft-server.rpc-bean: unset, or the name of a bean.
RPCBeans == {"", "rpc-server"}

\* Values of <RPCBean>.listen-address: unset, ":9000", ":8000", "rpc".
RpcListenAddresses == {EmptyString, <<"", "9000">>, <<"", "8000">>, <<"rpc">>}

\* Arguments of GetAPIEndpoint: "h1:8000", "h1:7000", "h2", "h1:port".
EndpointArgs == {GoodAddr, <<"h1", "7000">>, BadAddr, <<"h1", "port">>}

\* getPortNumber: strconv.Atoi of the last field
getPortNumber(addr) ==
    LET end == addr[Len(addr)] IN
    IF AtoiOk(end) THEN [err |-> "nil", port |-> Atoi(end)]
    ELSE [err |-> "atoi", port |-> 0]

\* getHostAndPortNumber: exactly two fields, then strconv.Atoi of the second
getHostAndPortNumber(addr) ==
    IF Len(addr) # 2 THEN [host |-> "", port |-> 0, err |-> "invalid address"]
    ELSE IF AtoiOk(addr[2]) THEN [host |-> addr[1], port |-> Atoi(addr[2]), err |-> "nil"]
    ELSE [host |-> addr[1], port |-> 0, err |-> "atoi"]

\* The difference taken the other way round.
PortDiffReversed(rpcPort, raftPort) == raftPort - rpcPort

\* t.portDiff = rpcPort - raftPort
PortDiff(rpcPort, raftPort) == rpcPort - raftPort

\* PostConstruct: its error and the portDiff it leaves (0 unless it assigns one).
PostConstructResult(raftAddr, bean, prop) ==
    IF raftAddr # EmptyString /\ bean # ""
    THEN IF getPortNumber(raftAddr).err # "nil"
         THEN [err |-> "invalid port in property 'raft-server.listen-address'", diff |-> 0]
         ELSE IF prop = EmptyString
         THEN [err |-> "empty property needed by 'raft-server.rpc-bean' reference", diff |-> 0]
         ELSE IF getPortNumber(prop).err # "nil"
         THEN [err |-> "invalid port in property", diff |-> 0]
         ELSE [err |-> "nil",
               diff |-> PortDiff(getPortNumber(prop).port, getPortNumber(raftAddr).port)]
    ELSE [err |-> "nil", diff |-> 0]

\* GetAPIEndpoint: fmt.Sprintf("%s:%d", raftHost, raftPort + t.portDiff)
GetAPIEndpoint(addr, diff) ==
    LET r == getHostAndPortNumber(addr) IN
    IF r.err # "nil" THEN [endpoint |-> EmptyString, err |-> r.err]
    ELSE [endpoint |-> <<r.host, Itoa(r.port + diff)>>, err |-> "nil"]

NoEndpointCall == [addr |-> <<>>]

InitEndpoint ==
    /\ RaftAddress \in RaftAddresses
    /\ RPCBean \in RPCBeans
    /\ rpcListenAddress \in RpcListenAddresses
    /\ portDiff = 0
    /\ built = "new"
    /\ lastEndpoint = NoEndpointCall

\* The container calls PostConstruct once, after the properties are injected.
PostConstruct ==
    /\ built = "new"
    /\ LET r == PostConstructResult(RaftAddress, RPCBean, rpcListenAddress) IN
         /\ built' = IF r.err = "nil" THEN "ok" ELSE "failed"
         /\ portDiff' = r.diff
    /\ UNCHANGED <<RaftAddress, RPCBean, rpcListenAddress, lastEndpoint>>
    /\ UNCHANGED <<poolVars, lookupVars, cipherVars, closerVars, transportVars, serverVars>>

\* GetAPIEndpoint(raftAddress) on the constructed pool
GetAPIEndpointCall ==
    /\ built = "ok"
    /\ \E addr \in EndpointArgs :
          LET r == GetAPIEndpoint(addr, portDiff) IN
          lastEndpoint' = [addr |-> addr, endpoint |-> r.endpoint, err |-> r.err]
    /\ UNCHANGED <<RaftAddress, RPCBean, rpcListenAddress, portDiff, built>>
    /\ UNCHANGED <<poolVars, lookupVars, cipherVars, closerVars, transportVars, serverVars>>

NextEndpoint ==
    \/ PostConstruct
    \/ GetAPIEndpointCall

(***************************************************************************)
(* Raft transport (tcp_stream_layer.go)                                    *)
(***************************************************************************)

\* A net.Addr: the nil interface, a *net.TCPAddr, or an address of another type.
NilAddr == [net |-> "nil"]
TCPAddr(ip, port) == [net |-> "tcp", IP |-> ip, Port |-> port]
UnixAddr == [net |-> "unix", Name |-> "/tmp/raft.sock"]

\* A net.IP is a byte slice: nil, 4 bytes, or 16 bytes.
NilIP == <<>>
v4InV6Prefix == <<0, 0, 0, 0, 0, 0, 0, 0, 0, 0, 255, 255>>
IPv4zero == v4InV6Prefix \o <<0, 0, 0, 0>>
IPv6unspecified == [i \in 1..16 |-> 0]

\* net.IP.Equal: the same bytes, or a 4-byte and a 16-byte form of one IPv4 address
IPEqual(ip, x) ==
    IF Len(ip) = Len(x) THEN ip = x
    ELSE IF Len(ip) = 4 /\ Len(x) = 16
    THEN SubSeq(x, 1, 12) = v4InV6Prefix /\ SubSeq(x, 13, 16) = ip
    ELSE IF Len(ip) = 16 /\ Len(x) = 4
    THEN SubSeq(ip, 1, 12) = v4InV6Prefix /\ SubSeq(ip, 13, 16) = x
    ELSE FALSE

\* net.IP.IsUnspecified
IsUnspecified(ip) == IPEqual(ip, IPv4zero) \/ IPEqual(ip, IPv6unspecified)

\* nil, 0.0.0.0 in both forms, ::, 10.0.0.1 in both forms, ::1
TransportIPs ==
    {NilIP, <<0, 0, 0, 0>>, IPv4zero, IPv6unspecified, <<10, 0, 0, 1>>,
     v4InV6Prefix \o <<10, 0, 0, 1>>, [i \in 1..16 |-> IF i = 16 THEN 1 ELSE 0]}

TransportAddrs == {TCPAddr(ip, 8000) : ip \in TransportIPs} \cup {UnixAddr}

\* An Addr that always answers with the listener's address.
StreamAddrOfListener(adv, lst) == lst

\* TCPStreamLayer.Addr: the advertise address if it is not nil, else listener.Addr()
StreamAddr(adv, lst) == IF adv # NilAddr THEN adv ELSE lst

\* The test without its second half: only a nil IP is turned down.
NotAdvertisableNilOnly(addr) == addr.IP = NilIP

\* addr.IP == nil || addr.IP.IsUnspecified()
NotAdvertisable(addr) == addr.IP = NilIP \/ IsUnspecified(addr.IP)

NoStreamLayer == [advertise |-> NilAddr, listener |-> NilAddr]

\* newTCPTransport: the error, whether transportCreator is invoked, and with what
newTCPTransportResult(lst, adv) ==
    LET addr == StreamAddr(adv, lst) IN
    IF addr.net # "tcp"
    THEN [err |-> "local address is not a TCP address", created |-> FALSE,
          stream |-> NoStreamLayer, addr |-> addr]
    ELSE IF NotAdvertisable(addr)
    THEN [err |-> "local bind address is not advertisable", created |-> FALSE,
          stream |-> NoStreamLayer, addr |-> addr]
    ELSE [err |-> "nil", created |-> TRUE,
          stream |-> [advertise |-> adv, listener |-> lst], addr |-> addr]

NoAddrCall == [net |-> "none"]

InitTransport ==
    /\ advertise \in {NilAddr} \cup TransportAddrs
    /\ listenerAddr \in TransportAddrs
    /\ tpc = "new"
    /\ transErr = "nil"
    /\ creatorCalls = 0
    /\ stream = NoStreamLayer
    /\ effective = NoAddrCall
    /\ addrResult = NoAddrCall

\* newTCPTransport(listener, advertise, tlsConfigOpt, transportCreator)
NewTCPTransport ==
    /\ tpc = "new"
    /\ LET r == newTCPTransportResult(listenerAddr, advertise) IN
         /\ tpc' = IF r.err = "nil" THEN "ok" ELSE "failed"
         /\ transErr' = r.err
         /\ creatorCalls' = IF r.created THEN creatorCalls + 1 ELSE creatorCalls
         /\ stream' = r.stream
         /\ effective' = r.addr
    /\ UNCHANGED <<advertise, listenerAddr, addrResult>>
    /\ UNCHANGED <<poolVars, lookupVars, cipherVars, closerVars, endpointVars, serverVars>>

\* The transport calls Addr() on its stream layer.
StreamLayerAddr ==
    /\ tpc = "ok"
    /\ addrResult' = StreamAddr(stream.advertise, stream.listener)
    /\ UNCHANGED <<advertise, listenerAddr, tpc, transErr, creatorCalls, stream, effective>>
    /\ UNCHANGED <<poolVars, lookupVars, cipherVars, closerVars, endpointVars, serverVars>>

NextTransport ==
    \/ NewTCPTransport
    \/ StreamLayerAddr

(***************************************************************************)
(* Routing table (server_lookup.go)                                        *)
(***************************************************************************)

Nil == [nil |-> TRUE]

\* net.TCPAddr.String(): "ip:port", kept as its colon-separated fields.
AddrString(addr) == <<addr.IP, Itoa(addr.Port)>>

\* m[k] = v on a Go map
MapPut(m, k, v) == [x \in DOMAIN m \cup {k} |-> IF x = k THEN v ELSE m[x]]

\* delete(m, k) on a Go map
MapDelete(m, k) == [x \in DOMAIN m \ {k} |-> m[x]]

EmptyMap == [x \in {} |-> Nil]

\* The two indices, as one value.
Tables == [a2s |-> addressToServer, id2s |-> idToServer]
PrevTables == [a2s |-> prevAddressToServer, id2s |-> prevIdToServer]

\* AddServer without its first assignment: only the ID index is updated.
AddServerIdOnly(T, server) ==
    [a2s |-> T.a2s, id2s |-> MapPut(T.id2s, server.ID, server)]

\* AddServer that keeps what a key already holds.
AddServerFirstWins(T, server) ==
    [a2s |-> IF AddrString(server.Addr) \in DOMAIN T.a2s THEN T.a2s
             ELSE MapPut(T.a2s, AddrString(server.Addr), server),
     id2s |-> IF server.ID \in DOMAIN T.id2s THEN T.id2s
              ELSE MapPut(T.id2s, server.ID, server)]

\* AddServer: both indices are written under one lock.
AddServer(T, server) ==
    [a2s |-> MapPut(T.a2s, AddrString(server.Addr), server),
     id2s |-> MapPut(T.id2s, server.ID, server)]

\* RemoveServer without its second delete: only the address index is cleared.
RemoveServerAddrOnly(T, server) ==
    [a2s |-> MapDelete(T.a2s, AddrString(server.Addr)), id2s |-> T.id2s]

\* RemoveServer that clears the address index of every descriptor with the ID.
RemoveServerById(T, server) ==
    [a2s |-> [x \in {k \in DOMAIN T.a2s : T.a2s[k].ID # server.ID} |-> T.a2s[x]],
     id2s |-> MapDelete(T.id2s, server.ID)]

\* RemoveServer: both keys are deleted under one lock.
RemoveServer(T, server) ==
    [a2s |-> MapDelete(T.a2s, AddrString(server.Addr)),
     id2s |-> MapDelete(T.id2s, server.ID)]

NoError == [error |-> "nil"]

\* ServerAddr returning a nil error whether or not the ID is in the table.
ServerAddrErrNil(T, id) == NoError

\* ServerAddr(id), its second result: fmt.Errorf("could not find address for
\* server id %v", id) when the ID is not in the table.
ServerAddrErr(T, id) ==
    IF id \in DOMAIN T.id2s
    THEN NoError
    ELSE [error |-> "could not find address for server id", id |-> id]

\* ServerAddr(id): the address of the descriptor under id, or an error.
ServerAddr(T, id) ==
    IF id \in DOMAIN T.id2s
    THEN [found |-> TRUE, addr |-> AddrString(T.id2s[id].Addr)]
    ELSE [found |-> FALSE, addr |-> <<>>]

\* Server(addr): the descriptor under addr, or nil.
Server(T, addr) == IF addr \in DOMAIN T.a2s THEN T.a2s[addr] ELSE Nil

\* Servers(): the descriptors of the address index.
Servers(T) == {T.a2s[a] : a \in DOMAIN T.a2s}

(***************************************************************************)
(* Membership bridge (server.go, raft_server_serf.go)                      *)
(***************************************************************************)

\* t.Application.Name(): the role this cluster expects.
ExpectedRole == "raftapp"

TagKeys == {"id", "role", "port", "raft-port", "grpc-port", "rpc-port", "build", "version"}

\* A Go map lookup yields "" for a key the map does not hold.
MkTags(id, role, port, raftPort, grpcPort, rpcPort) ==
    [k \in TagKeys |->
        CASE k = "id" -> id [] k = "role" -> role [] k = "port" -> port
          [] k = "raft-port" -> raftPort [] k = "grpc-port" -> grpcPort
          [] k = "rpc-port" -> rpcPort [] k = "build" -> "b1" [] k = "version" -> "v1"]

MkMember(name, ip, tags) ==
    [Name |-> name, Addr |-> ip, Port |-> 7946, Tags |-> tags, Status |-> "alive"]

\* The members gossip reports: n1, n1 after a port change, n2 on n1's address,
\* a member of another role, and a member tagged rpc-port instead of grpc-port.
MemberN1 == MkMember("node1", "ip1", MkTags("n1", ExpectedRole, "7000", "8000", "9000", ""))
MemberN1Moved == MkMember("node1", "ip1", MkTags("n1", ExpectedRole, "7001", "8000", "9000", ""))
MemberN2 == MkMember("node2", "ip1", MkTags("n2", ExpectedRole, "7000", "8000", "9000", ""))
MemberOtherRole == MkMember("node3", "ip2", MkTags("n3", "other", "7000", "8000", "9000", ""))
MemberRpcTag == MkMember("node1", "ip1", MkTags("n1", ExpectedRole, "7000", "8000", "", "9000"))

Members == {MemberN1, MemberN1Moved, MemberN2, MemberOtherRole, MemberRpcTag}

\* ParseServerTags without its first test: the role tag is not compared.
ParseServerTagsNoRole(m, role) ==
    IF ~AtoiOk(m.Tags["port"]) \/ ~AtoiOk(m.Tags["raft-port"]) \/ ~AtoiOk(m.Tags["grpc-port"])
    THEN [ok |-> FALSE, server |-> Nil]
    ELSE [ok |-> TRUE,
          server |-> [Name |-> m.Name, ID |-> m.Tags["id"], Port |-> Atoi(m.Tags["port"]),
                      JoinPort |-> m.Port, RaftPort |-> Atoi(m.Tags["raft-port"]),
                      RPCPort |-> Atoi(m.Tags["grpc-port"]),
                      Addr |-> [IP |-> m.Addr, Port |-> Atoi(m.Tags["port"])],
                      Build |-> m.Tags["build"], Version |-> m.Tags["version"],
                      Status |-> m.Status]]

\* ParseServerTags: the role must match and port, raft-port, grpc-port must parse.
ParseServerTags(m, role) ==
    IF m.Tags["role"] # role THEN [ok |-> FALSE, server |-> Nil]
    ELSE IF ~AtoiOk(m.Tags["port"]) THEN [ok |-> FALSE, server |-> Nil]
    ELSE IF ~AtoiOk(m.Tags["raft-port"]) THEN [ok |-> FALSE, server |-> Nil]
    ELSE IF ~AtoiOk(m.Tags["grpc-port"]) THEN [ok |-> FALSE, server |-> Nil]
    ELSE [ok |-> TRUE,
          server |-> [Name |-> m.Name, ID |-> m.Tags["id"], Port |-> Atoi(m.Tags["port"]),
                      JoinPort |-> m.Port, RaftPort |-> Atoi(m.Tags["raft-port"]),
                      RPCPort |-> Atoi(m.Tags["grpc-port"]),
                      Addr |-> [IP |-> m.Addr, Port |-> Atoi(m.Tags["port"])],
                      Build |-> m.Tags["build"], Version |-> m.Tags["version"],
                      Status |-> m.Status]]

RECURSIVE nodeJoinLAN(_, _)
\* nodeJoinLAN: AddServer for every member that parses, in order.
nodeJoinLAN(T, ms) ==
    IF ms = <<>> THEN T
    ELSE LET p == ParseServerTags(Head(ms), ExpectedRole) IN
         nodeJoinLAN(IF p.ok THEN AddServer(T, p.server) ELSE T, Tail(ms))

RECURSIVE nodeUpdateLAN(_, _)
\* nodeUpdateLAN: AddServer for every member that parses, in order.
nodeUpdateLAN(T, ms) ==
    IF ms = <<>> THEN T
    ELSE LET p == ParseServerTags(Head(ms), ExpectedRole) IN
         nodeUpdateLAN(IF p.ok THEN AddServer(T, p.server) ELSE T, Tail(ms))

RECURSIVE nodeFailedLAN(_, _)
\* nodeFailedLAN: RemoveServer for every member that parses, in order.
nodeFailedLAN(T, ms) ==
    IF ms = <<>> THEN T
    ELSE LET p == ParseServerTags(Head(ms), ExpectedRole) IN
         nodeFailedLAN(IF p.ok THEN RemoveServer(T, p.server) ELSE T, Tail(ms))

\* Longest member list of one event.
MaxMembers == 2

\* Serf coalesces member events by member name: one event names a member once.
MemberLists ==
    {ms \in UNION {[1..n -> Members] : n \in 1..MaxMembers} :
        \A i, j \in DOMAIN ms : i # j => ms[i].Name # ms[j].Name}

MemberEventTypes == {"join", "leave", "failed", "reap", "update"}
RemovalEventTypes == {"leave", "failed", "reap"}

UserEventNames == {"raftapp:new-leader", "raftapp:other", "other:new-leader"}
UserEventPayloads == {"", "n1"}

SerfEvents ==
    [type : MemberEventTypes, members : MemberLists]
    \cup [type : {"user"}, name : UserEventNames, payload : UserEventPayloads]
    \cup {[type |-> "query"]}

NoEvent == [type |-> "none"]

\* A localEvent that takes the payload of "new-leader" for a server to forget.
localEventForgets(T, event) ==
    IF event.name = "raftapp:new-leader"
    THEN [a2s |-> T.a2s, id2s |-> MapDelete(T.id2s, event.payload)]
    ELSE T

\* localEvent: return unless the name starts with "<application>:"; for the name
\* "new-leader" after the prefix the payload is logged. No field is written.
localEvent(T, event) == T

\* One iteration of eventHandlerLAN's loop on event e (localMemberEvent has an
\* empty body; a Query event is ignored).
eventHandlerLAN(T, e) ==
    CASE e.type = "join" -> nodeJoinLAN(T, e.members)
      [] e.type \in RemovalEventTypes -> nodeFailedLAN(T, e.members)
      [] e.type = "user" -> localEvent(T, e)
      [] e.type = "update" -> nodeUpdateLAN(T, e.members)
      [] OTHER -> T

NoCall == [op |-> "none"]
NoSlice == [slice |-> "none"]

InitLookup ==
    /\ addressToServer = EmptyMap
    /\ idToServer = EmptyMap
    /\ lastEvent = NoEvent
    /\ prevAddressToServer = EmptyMap
    /\ prevIdToServer = EmptyMap
    /\ lastCall = NoCall
    /\ servers = NoSlice
    /\ serversAtReturn = <<>>

\* e := <-t.serfChLAN and its handling
HandleEvent ==
    \E e \in SerfEvents :
        LET T == eventHandlerLAN(Tables, e) IN
        /\ addressToServer' = T.a2s
        /\ idToServer' = T.id2s
        /\ lastEvent' = e
        /\ prevAddressToServer' = addressToServer
        /\ prevIdToServer' = idToServer
        /\ UNCHANGED <<lastCall, servers, serversAtReturn>>
        /\ UNCHANGED <<poolVars, cipherVars, closerVars, endpointVars, transportVars, serverVars>>

NextLookup == HandleEvent

(***************************************************************************)
(* The routing table called directly (raftapi.ServerLookup)                *)
(***************************************************************************)

\* The descriptors callers pass: n1, n1 again with another status, n1 after a
\* port change, and n2 on n1's address.
ServerN1 == ParseServerTags(MemberN1, ExpectedRole).server
ServerN1Failed == [ServerN1 EXCEPT !.Status = "failed"]
ServerN1Moved == ParseServerTags(MemberN1Moved, ExpectedRole).server
ServerN2 == ParseServerTags(MemberN2, ExpectedRole).server

ApiServers == {ServerN1, ServerN1Failed, ServerN1Moved, ServerN2}

\* The IDs and addresses looked up: those of the descriptors and unknown ones.
LookupIDs == {"n1", "n2", "n9"}
LookupAddrs == {<<"ip1", "7000">>, <<"ip1", "7001">>, <<"ip9", "7000">>}

\* The orders in which a range over a Go map can deliver the elements of S.
RangeOrders(S) ==
    {q \in [1..Cardinality(S) -> S] : \A x \in S : \E i \in DOMAIN q : q[i] = x}

\* Servers() handing out the table's own storage.
ReturnedLiveView(q) == [slice |-> "live", items |-> q]

\* Servers(): var servers []*raftapi.Server, filled by append and returned
ReturnedSlice(q) == [slice |-> "own", items |-> q]

\* What the holder of a returned slice sees in it now.
SliceItems(r) ==
    IF r.slice = "live"
    THEN CHOOSE q \in RangeOrders(Servers(Tables)) : TRUE
    ELSE r.items

AddServerCall ==
    \E d \in ApiServers :
        LET T == AddServer(Tables, d) IN
        /\ addressToServer' = T.a2s
        /\ idToServer' = T.id2s
        /\ prevAddressToServer' = addressToServer
        /\ prevIdToServer' = idToServer
        /\ lastCall' = [op |-> "AddServer", server |-> d]
        /\ UNCHANGED <<lastEvent, servers, serversAtReturn>>
        /\ UNCHANGED <<poolVars, cipherVars, closerVars, endpointVars, transportVars, serverVars>>

RemoveServerCall ==
    \E d \in ApiServers :
        LET T == RemoveServer(Tables, d) IN
        /\ addressToServer' = T.a2s
        /\ idToServer' = T.id2s
        /\ prevAddressToServer' = addressToServer
        /\ prevIdToServer' = idToServer
        /\ lastCall' = [op |-> "RemoveServer", server |-> d]
        /\ UNCHANGED <<lastEvent, servers, serversAtReturn>>
        /\ UNCHANGED <<poolVars, cipherVars, closerVars, endpointVars, transportVars, serverVars>>

ServerAddrCall ==
    \E id \in LookupIDs :
        /\ lastCall' = [op |-> "ServerAddr", id |-> id,
                        addr |-> ServerAddr(Tables, id).addr,
                        err |-> ServerAddrErr(Tables, id)]
        /\ prevAddressToServer' = addressToServer
        /\ prevIdToServer' = idToServer
        /\ UNCHANGED <<addressToServer, idToServer, lastEvent, servers, serversAtReturn>>
        /\ UNCHANGED <<poolVars, cipherVars, closerVars, endpointVars, transportVars, serverVars>>

ServerCall ==
    \E addr \in LookupAddrs :
        /\ lastCall' = [op |-> "Server", addr |-> addr, server |-> Server(Tables, addr)]
        /\ prevAddressToServer' = addressToServer
        /\ prevIdToServer' = idToServer
        /\ UNCHANGED <<addressToServer, idToServer, lastEvent, servers, serversAtReturn>>
        /\ UNCHANGED <<poolVars, cipherVars, closerVars, endpointVars, transportVars, serverVars>>

ServersCall ==
    \E q \in RangeOrders(Servers(Tables)) :
        /\ servers' = ReturnedSlice(q)
        /\ serversAtReturn' = q
        /\ lastCall' = [op |-> "Servers"]
        /\ prevAddressToServer' = addressToServer
        /\ prevIdToServer' = idToServer
        /\ UNCHANGED <<addressToServer, idToServer, lastEvent>>
        /\ UNCHANGED <<poolVars, cipherVars, closerVars, endpointVars, transportVars, serverVars>>

NextLookupAPI ==
    \/ AddServerCall
    \/ RemoveServerCall
    \/ ServerAddrCall
    \/ ServerCall
    \/ ServersCall


(***************************************************************************)
(* The routing table under its lock (sync.RWMutex), call by call           *)
(***************************************************************************)

\* Concurrent AddServer/RemoveServer calls and concurrent reading calls.
NumWriters == 2
NumReaders == 2

Writers == 1..NumWriters
Readers == (NumWriters + 1)..(NumWriters + NumReaders)

\* What the writers call.
WriterOps == [op : {"AddServer", "RemoveServer"}, server : {ServerN1, ServerN1Moved, ServerN2}]

NoOp == [op |-> "none"]

InitLock ==
    /\ mutexW = 0
    /\ mutexR = {}
    /\ wpc = [w \in Writers |-> "idle"]
    /\ wop = [w \in Writers |-> NoOp]
    /\ rpc = [r \in Readers |-> "idle"]
    /\ sawHalf = [r \in Readers |-> FALSE]

\* A read lock that is granted whoever holds the mutex.
RLockAlways(w) == TRUE

\* t.mutex.RLock() returns when no goroutine holds the mutex for writing
RLockFree(w) == w = 0

\* t.mutex.Lock() returns when no goroutine holds the mutex at all
LockFree(w, rs) == w = 0 /\ rs = {}

\* The table after the call's two map operations.
Written(T, o) ==
    IF o.op = "AddServer" THEN AddServer(T, o.server) ELSE RemoveServer(T, o.server)

\* AddServer or RemoveServer: t.mutex.Lock()
WriterLock(w) ==
    /\ wpc[w] = "idle"
    /\ LockFree(mutexW, mutexR)
    /\ mutexW' = w
    /\ \E o \in WriterOps : wop' = [wop EXCEPT ![w] = o]
    /\ wpc' = [wpc EXCEPT ![w] = "locked"]
    /\ UNCHANGED <<mutexR, rpc, sawHalf>>
    /\ UNCHANGED <<bridgeVars, raftVars, stopVars, shutdownVars>>
    /\ UNCHANGED <<poolVars, lookupVars, cipherVars, closerVars, endpointVars, transportVars>>

\* The first map operation: t.addressToServer[...] = server, or its delete
WriteAddressToServer(w) ==
    /\ wpc[w] = "locked"
    /\ addressToServer' = Written(Tables, wop[w]).a2s
    /\ wpc' = [wpc EXCEPT ![w] = "half"]
    /\ UNCHANGED <<idToServer, lastEvent, prevAddressToServer, prevIdToServer, lastCall,
                   servers, serversAtReturn>>
    /\ UNCHANGED <<mutexW, mutexR, wop, rpc, sawHalf>>
    /\ UNCHANGED <<bridgeVars, raftVars, stopVars, shutdownVars>>
    /\ UNCHANGED <<poolVars, cipherVars, closerVars, endpointVars, transportVars>>

\* The second map operation: t.idToServer[...] = server, or its delete
WriteIdToServer(w) ==
    /\ wpc[w] = "half"
    /\ idToServer' = Written(Tables, wop[w]).id2s
    /\ wpc' = [wpc EXCEPT ![w] = "written"]
    /\ UNCHANGED <<addressToServer, lastEvent, prevAddressToServer, prevIdToServer,
                   lastCall, servers, serversAtReturn>>
    /\ UNCHANGED <<mutexW, mutexR, wop, rpc, sawHalf>>
    /\ UNCHANGED <<bridgeVars, raftVars, stopVars, shutdownVars>>
    /\ UNCHANGED <<poolVars, cipherVars, closerVars, endpointVars, transportVars>>

\* The deferred t.mutex.Unlock()
WriterUnlock(w) ==
    /\ wpc[w] = "written"
    /\ mutexW' = 0
    /\ wpc' = [wpc EXCEPT ![w] = "done"]
    /\ UNCHANGED <<mutexR, wop, rpc, sawHalf>>
    /\ UNCHANGED <<bridgeVars, raftVars, stopVars, shutdownVars>>
    /\ UNCHANGED <<poolVars, lookupVars, cipherVars, closerVars, endpointVars, transportVars>>

\* ServerAddr, Server or Servers: t.mutex.RLock()
ReaderRLock(r) ==
    /\ rpc[r] = "idle"
    /\ RLockFree(mutexW)
    /\ mutexR' = mutexR \cup {r}
    /\ rpc' = [rpc EXCEPT ![r] = "rlocked"]
    /\ UNCHANGED <<mutexW, wpc, wop, sawHalf>>
    /\ UNCHANGED <<bridgeVars, raftVars, stopVars, shutdownVars>>
    /\ UNCHANGED <<poolVars, lookupVars, cipherVars, closerVars, endpointVars, transportVars>>

\* The read of the map (t.idToServer[id], t.addressToServer[addr], or the range)
ReaderRead(r) ==
    /\ rpc[r] = "rlocked"
    /\ sawHalf' = [sawHalf EXCEPT ![r] = \E w \in Writers : wpc[w] = "half"]
    /\ rpc' = [rpc EXCEPT ![r] = "read"]
    /\ UNCHANGED <<mutexW, mutexR, wpc, wop>>
    /\ UNCHANGED <<bridgeVars, raftVars, stopVars, shutdownVars>>
    /\ UNCHANGED <<poolVars, lookupVars, cipherVars, closerVars, endpointVars, transportVars>>

\* The deferred t.mutex.RUnlock()
ReaderRUnlock(r) ==
    /\ rpc[r] = "read"
    /\ mutexR' = mutexR \ {r}
    /\ rpc' = [rpc EXCEPT ![r] = "done"]
    /\ UNCHANGED <<mutexW, wpc, wop, sawHalf>>
    /\ UNCHANGED <<bridgeVars, raftVars, stopVars, shutdownVars>>
    /\ UNCHANGED <<poolVars, lookupVars, cipherVars, closerVars, endpointVars, transportVars>>

NextLock ==
    \/ \E w \in Writers :
          WriterLock(w) \/ WriteAddressToServer(w) \/ WriteIdToServer(w) \/ WriterUnlock(w)
    \/ \E r \in Readers : ReaderRLock(r) \/ ReaderRead(r) \/ ReaderRUnlock(r)

(***************************************************************************)
(* The raft server: Serve with Stop, and Serve with Shutdown               *)
(***************************************************************************)

\* Concurrent calls of Stop and Destroy, or of Shutdown and Destroy.
NumStopCallers == 2

StopCallers == 1..NumStopCallers

\* What t.serf.Members() would list: nothing, n1, or n1 and a member of another role.
MemberSets == {{}, {MemberN1}, {MemberN1, MemberOtherRole}}

\* The state after RaftServer() and Bind: Bind has made the listener and the
\* transport, or has returned early (no listen address) and left both nil.
InitServer ==
    /\ raft = "nil"
    /\ raftSt = "none"
    /\ transport \in {"nil", "open"}
    /\ listener = transport
    /\ servePc = "idle"
    /\ serveErr = "none"
    /\ running = FALSE
    /\ stopPc = [i \in StopCallers |-> "idle"]
    /\ stopAfterServe = [i \in StopCallers |-> FALSE]
    /\ alive = FALSE
    /\ shutdownOnce = FALSE
    /\ shutdownCh = "open"
    /\ shutPc = [i \in StopCallers |-> "idle"]
    /\ shutHolder = 0
    /\ serveAtShutdown = "none"
    /\ serfMembers \in MemberSets

\* Serve (the version with Stop): t.running.Store(true), on a bound server
ServeRunningStart ==
    /\ servePc = "idle"
    /\ transport # "nil"
    /\ running' = TRUE
    /\ servePc' = "newraft"
    /\ UNCHANGED <<raft, raftSt, transport, listener, serveErr, stopPc, stopAfterServe>>
    /\ UNCHANGED <<lockVars, bridgeVars, shutdownVars>>
    /\ UNCHANGED <<poolVars, lookupVars, cipherVars, closerVars, endpointVars, transportVars>>

\* t.raft, err = raft.NewRaft(...); if err != nil { return err }
NewRaft ==
    /\ servePc = "newraft"
    /\ \/ /\ raft' = "inst"
          /\ raftSt' = "running"
          /\ serveErr' = "nil"
          /\ servePc' = "store"
       \/ /\ raft' = "nil"
          /\ serveErr' = "err"
          /\ servePc' = "done"
          /\ UNCHANGED raftSt
    /\ UNCHANGED <<transport, listener>>
    /\ UNCHANGED <<lockVars, bridgeVars, stopVars, shutdownVars>>
    /\ UNCHANGED <<poolVars, lookupVars, cipherVars, closerVars, endpointVars, transportVars>>

\* t.running.Store(true); return nil
ServeRunningStore ==
    /\ servePc = "store"
    /\ running' = TRUE
    /\ servePc' = "done"
    /\ UNCHANGED <<raft, raftSt, transport, listener, serveErr, stopPc, stopAfterServe>>
    /\ UNCHANGED <<lockVars, bridgeVars, shutdownVars>>
    /\ UNCHANGED <<poolVars, lookupVars, cipherVars, closerVars, endpointVars, transportVars>>

ServeRunning == ServeRunningStart \/ NewRaft \/ ServeRunningStore

\* Stop, or Destroy which calls it: t.running.Store(false)
StopStart(i) ==
    /\ stopPc[i] = "idle"
    /\ running' = FALSE
    /\ stopAfterServe' = [stopAfterServe EXCEPT ![i] = servePc = "done" /\ serveErr = "nil"]
    /\ stopPc' = [stopPc EXCEPT ![i] = "cas"]
    /\ UNCHANGED raftVars
    /\ UNCHANGED <<lockVars, bridgeVars, shutdownVars>>
    /\ UNCHANGED <<poolVars, lookupVars, cipherVars, closerVars, endpointVars, transportVars>>

\* if t.running.CompareAndSwap(true, false) { ... }
StopCompareAndSwap(i) ==
    /\ stopPc[i] = "cas"
    /\ IF running
       THEN /\ running' = FALSE
            /\ stopPc' = [stopPc EXCEPT ![i] = "raft"]
       ELSE /\ stopPc' = [stopPc EXCEPT ![i] = "done"]
            /\ UNCHANGED running
    /\ UNCHANGED stopAfterServe
    /\ UNCHANGED raftVars
    /\ UNCHANGED <<lockVars, bridgeVars, shutdownVars>>
    /\ UNCHANGED <<poolVars, lookupVars, cipherVars, closerVars, endpointVars, transportVars>>

\* if t.raft != nil { t.raft.Shutdown() }
StopRaft(i) ==
    /\ stopPc[i] = "raft"
    /\ raftSt' = IF raft # "nil" THEN "shutdown" ELSE raftSt
    /\ stopPc' = [stopPc EXCEPT ![i] = "close"]
    /\ UNCHANGED <<raft, transport, listener, servePc, serveErr, running, stopAfterServe>>
    /\ UNCHANGED <<lockVars, bridgeVars, shutdownVars>>
    /\ UNCHANGED <<poolVars, lookupVars, cipherVars, closerVars, endpointVars, transportVars>>

\* t.transport.Close() and t.listener.Close(), each unless nil
StopClose(i) ==
    /\ stopPc[i] = "close"
    /\ transport' = IF transport # "nil" THEN "closed" ELSE transport
    /\ listener' = IF listener # "nil" THEN "closed" ELSE listener
    /\ stopPc' = [stopPc EXCEPT ![i] = "done"]
    /\ UNCHANGED <<raft, raftSt, servePc, serveErr, running, stopAfterServe>>
    /\ UNCHANGED <<lockVars, bridgeVars, shutdownVars>>
    /\ UNCHANGED <<poolVars, lookupVars, cipherVars, closerVars, endpointVars, transportVars>>

Stop(i) == StopStart(i) \/ StopCompareAndSwap(i) \/ StopRaft(i) \/ StopClose(i)

NextStop ==
    \/ ServeRunning
    \/ \E i \in StopCallers : Stop(i)

\* Serve (the version with Shutdown): t.alive.Store(false), on a bound server
ServeAliveStart ==
    /\ servePc = "idle"
    /\ transport # "nil"
    /\ alive' = FALSE
    /\ servePc' = "newraft"
    /\ UNCHANGED <<raft, raftSt, transport, listener, serveErr>>
    /\ UNCHANGED <<shutdownOnce, shutdownCh, shutPc, shutHolder, serveAtShutdown,
                   serfMembers>>
    /\ UNCHANGED <<lockVars, bridgeVars, stopVars>>
    /\ UNCHANGED <<poolVars, lookupVars, cipherVars, closerVars, endpointVars, transportVars>>

\* t.alive.Store(true); return nil. Nothing between NewRaft and this line reads
\* the member list or calls t.ServerLookup.
ServeAliveStore ==
    /\ servePc = "store"
    /\ alive' = TRUE
    /\ servePc' = "done"
    /\ UNCHANGED <<raft, raftSt, transport, listener, serveErr>>
    /\ UNCHANGED <<shutdownOnce, shutdownCh, shutPc, shutHolder, serveAtShutdown,
                   serfMembers>>
    /\ UNCHANGED <<lockVars, bridgeVars, stopVars>>
    /\ UNCHANGED <<poolVars, lookupVars, cipherVars, closerVars, endpointVars, transportVars>>

ServeAlive == ServeAliveStart \/ NewRaft \/ ServeAliveStore

\* Shutdown, or Destroy which calls it: t.alive.Store(false)
ShutdownStart(i) ==
    /\ shutPc[i] = "idle"
    /\ alive' = FALSE
    /\ serveAtShutdown' = IF serveAtShutdown = "none" THEN servePc ELSE serveAtShutdown
    /\ shutPc' = [shutPc EXCEPT ![i] = "once"]
    /\ UNCHANGED <<shutdownOnce, shutdownCh, shutHolder, serfMembers>>
    /\ UNCHANGED raftVars
    /\ UNCHANGED <<lockVars, bridgeVars, stopVars>>
    /\ UNCHANGED <<poolVars, lookupVars, cipherVars, closerVars, endpointVars, transportVars>>

\* t.shutdownOnce.Do(f): return if done is set; else take the mutex of the Once
\* (a caller blocks while another one runs f) and start f.
ShutdownOnceDo(i) ==
    /\ shutPc[i] = "once"
    /\ IF OnceFired(shutdownOnce)
       THEN /\ shutPc' = [shutPc EXCEPT ![i] = "done"]
            /\ UNCHANGED shutHolder
       ELSE /\ shutHolder = 0
            /\ shutHolder' = i
            /\ shutPc' = [shutPc EXCEPT ![i] = "raft"]
    /\ UNCHANGED <<alive, shutdownOnce, shutdownCh, serveAtShutdown, serfMembers>>
    /\ UNCHANGED raftVars
    /\ UNCHANGED <<lockVars, bridgeVars, stopVars>>
    /\ UNCHANGED <<poolVars, lookupVars, cipherVars, closerVars, endpointVars, transportVars>>

\* if t.raft != nil { future := t.raft.Shutdown(); ... }
ShutdownRaft(i) ==
    /\ shutPc[i] = "raft"
    /\ raftSt' = IF raft # "nil" THEN "shutdown" ELSE raftSt
    /\ shutPc' = [shutPc EXCEPT ![i] = "close"]
    /\ UNCHANGED <<raft, transport, listener, servePc, serveErr>>
    /\ UNCHANGED <<alive, shutdownOnce, shutdownCh, shutHolder, serveAtShutdown,
                   serfMembers>>
    /\ UNCHANGED <<lockVars, bridgeVars, stopVars>>
    /\ UNCHANGED <<poolVars, lookupVars, cipherVars, closerVars, endpointVars, transportVars>>

\* t.transport.Close() and t.listener.Close(), each unless nil; close(t.shutdownCh);
\* the Once is done and Shutdown returns.
ShutdownClose(i) ==
    /\ shutPc[i] = "close"
    /\ transport' = IF transport # "nil" THEN "closed" ELSE transport
    /\ listener' = IF listener # "nil" THEN "closed" ELSE listener
    /\ shutdownCh' = "closed"
    /\ shutdownOnce' = TRUE
    /\ shutHolder' = 0
    /\ shutPc' = [shutPc EXCEPT ![i] = "done"]
    /\ UNCHANGED <<raft, raftSt, servePc, serveErr>>
    /\ UNCHANGED <<alive, serveAtShutdown, serfMembers>>
    /\ UNCHANGED <<lockVars, bridgeVars, stopVars>>
    /\ UNCHANGED <<poolVars, lookupVars, cipherVars, closerVars, endpointVars, transportVars>>

Shutdown(i) ==
    \/ ShutdownStart(i)
    \/ ShutdownOnceDo(i)
    \/ ShutdownRaft(i)
    \/ ShutdownClose(i)

NextServe ==
    \/ ServeAlive
    \/ \E i \in StopCallers : Shutdown(i)

(***************************************************************************)
(* The membership event channel and eventHandlerLAN's loop                 *)
(***************************************************************************)

\* Events sent in one run, and the capacity of the channel (serf-server.queue-size,
\* scaled down).
MaxSent == 3
SerfQueueSize == 2

\* The events sent: a join, a leave or an update of one member, or a user event.
BridgeEvents ==
    {e \in SerfEvents :
        \/ /\ e.type \in {"join", "leave", "update"}
           /\ Len(e.members) = 1
           /\ e.members[1] \in {MemberN1, MemberN1Moved, MemberN2}
        \/ /\ e.type = "user"
           /\ e.name = "raftapp:new-leader" /\ e.payload = "n1"}

InitBridge ==
    /\ serfChLAN = <<>>
    /\ sent = <<>>
    /\ handlerPc = "loop"

\* A receive that takes the newest event of the channel.
ChanReceiveNewest(ch) == [e |-> ch[Len(ch)], rest |-> SubSeq(ch, 1, Len(ch) - 1)]

\* e := <-t.serfChLAN: a Go channel delivers in the order of the sends
ChanReceive(ch) == [e |-> Head(ch), rest |-> Tail(ch)]

\* The membership engine sends an event: EventCh <- e, blocking on a full channel
SerfSend ==
    /\ Len(sent) < MaxSent
    /\ Len(serfChLAN) < SerfQueueSize
    /\ \E e \in BridgeEvents :
          /\ serfChLAN' = Append(serfChLAN, e)
          /\ sent' = Append(sent, e)
    /\ UNCHANGED handlerPc
    /\ UNCHANGED <<lockVars, raftVars, stopVars, shutdownVars>>
    /\ UNCHANGED <<poolVars, lookupVars, cipherVars, closerVars, endpointVars, transportVars>>

\* One iteration of the loop: case e := <-t.serfChLAN, and the switch on its type
ReceiveEvent ==
    /\ handlerPc = "loop"
    /\ serfChLAN # <<>>
    /\ LET r == ChanReceive(serfChLAN)
           T == eventHandlerLAN(Tables, r.e)
       IN /\ serfChLAN' = r.rest
          /\ addressToServer' = T.a2s
          /\ idToServer' = T.id2s
          /\ lastEvent' = r.e
    /\ prevAddressToServer' = addressToServer
    /\ prevIdToServer' = idToServer
    /\ UNCHANGED <<lastCall, servers, serversAtReturn>>
    /\ UNCHANGED <<sent, handlerPc>>
    /\ UNCHANGED <<lockVars, raftVars, stopVars, shutdownVars>>
    /\ UNCHANGED <<poolVars, cipherVars, closerVars, endpointVars, transportVars>>

\* case <-t.shutdownCh: return
HandlerReturn ==
    /\ handlerPc = "loop"
    /\ shutdownCh = "closed"
    /\ handlerPc' = "returned"
    /\ UNCHANGED <<serfChLAN, sent>>
    /\ UNCHANGED <<lockVars, raftVars, stopVars, shutdownVars>>
    /\ UNCHANGED <<poolVars, lookupVars, cipherVars, closerVars, endpointVars, transportVars>>

\* The handler, the sender, and one caller of Shutdown closing shutdownCh
NextBridge ==
    \/ SerfSend
    \/ ReceiveEvent
    \/ HandlerReturn
    \/ Shutdown(1)

(***************************************************************************)
(* Snapshot cipher (stream_encrypter.go, encrypted snapshot store)         *)
(***************************************************************************)

\* A byte, scaled down to two bits.
Byte == 0..3

\* block.BlockSize(): the length of the IV, scaled down from AES's 16 bytes.
BlockSize == 2

\* Longest snapshot content, longest Write buffer, longest Read buffer.
MaxLen == 3
MaxChunk == 2
MaxBuf == 2

Tokens == {"123", "abc"}
Snapshots == {[index |-> 100, term |-> 1], [index |-> 200, term |-> 2]}

\* sha256 of the token, as an injective map to key values.
Sha256(tok) == CASE tok = "123" -> 1 [] tok = "abc" -> 2

\* Bitwise exclusive or of two bytes.
Xor(a, b) == (((a % 2) + (b % 2)) % 2) + 2 * (((a \div 2) + (b \div 2)) % 2)

RECURSIVE SumSeq(_)
SumSeq(q) == IF q = <<>> THEN 0 ELSE Head(q) + SumSeq(Tail(q))

\* cipher.NewCTR(block, iv): byte i of the key stream is a fixed function of the
\* key, the IV and i (never 0 here, so every byte is changed).
KeyStreamByte(key, iv, i) == 1 + ((key + SumSeq(iv) + i) % 3)

\* stream.XORKeyStream(p, p) at stream position pos
XORKeyStream(st, p) == [i \in 1..Len(p) |-> Xor(p[i], KeyStreamByte(st.key, st.iv, st.pos + i))]

\* The stream after n bytes went through it.
Advance(st, n) == [st EXCEPT !.pos = st.pos + n]

\* newSessionKey(index, term): h.Write([]byte(t.token)); h.Sum(nil)
newSessionKey(tok, index, term) == Sha256(tok)

NoStream == [key |-> 0, iv |-> <<>>, pos |-> 0]
NoReadErr == [src |-> "none", ret |-> "none"]
NoPartial == [st |-> "none", n |-> 0]

InitCipher ==
    /\ token \in Tokens
    /\ cpc = "init"
    /\ meta \in Snapshots
    /\ sinkBytes = <<>>
    /\ enc = NoStream
    /\ plain = <<>>
    /\ wbuf = <<>>
    /\ dec = NoStream
    /\ srcPos = 0
    /\ output = <<>>
    /\ lastRead = 0
    /\ lastReadErr = NoReadErr
    /\ sinkSt = "none"
    /\ sourceSt = "none"
    /\ partial = NoPartial

\* A StreamEncrypter that writes the IV to the sink a second time.
SinkWriteIVTwice(iv) == iv \o iv

\* n, err := sink.Write(iv) on the new sink, all of iv accepted
SinkWriteIV(iv) == iv

\* Create: the delegate's sink, then StreamEncrypter: a random IV is written to the
\* sink and the CTR stream is set up.
CreateSnapshot ==
    /\ cpc = "init"
    /\ \E iv \in [1..BlockSize -> Byte] :
          /\ sinkBytes' = SinkWriteIV(iv)
          /\ enc' = [key |-> newSessionKey(token, meta.index, meta.term), iv |-> iv, pos |-> 0]
    /\ cpc' = "writing"
    /\ sinkSt' = "open"
    /\ UNCHANGED <<token, meta, plain, wbuf, dec, srcPos, output, lastRead, lastReadErr,
                   sourceSt, partial>>
    /\ UNCHANGED <<poolVars, lookupVars, closerVars, endpointVars, transportVars, serverVars>>

\* Write encrypting into a buffer of its own: the caller's p keeps the plaintext.
WriteBufferKept(p, ct) == p

\* implStreamEncrypter.Write: XORKeyStream(p, p), the caller's p is the destination
WriteBuffer(p, ct) == ct

\* implStreamEncrypter.Write(p), the sink accepting all of p
SinkWrite ==
    /\ cpc = "writing"
    /\ \E n \in 1..MaxChunk : \E p \in [1..n -> Byte] :
          /\ Len(plain) + n <= MaxLen
          /\ LET ct == XORKeyStream(enc, p) IN
               /\ wbuf' = WriteBuffer(p, ct)
               /\ sinkBytes' = sinkBytes \o ct
          /\ enc' = Advance(enc, n)
          /\ plain' = plain \o p
    /\ UNCHANGED <<token, cpc, meta, dec, srcPos, output, lastRead, lastReadErr, sinkSt,
                   sourceSt, partial>>
    /\ UNCHANGED <<poolVars, lookupVars, closerVars, endpointVars, transportVars, serverVars>>

\* implStreamEncrypter.Close
SinkClose ==
    /\ cpc = "writing"
    /\ cpc' = "closed"
    /\ sinkSt' = "closed"
    /\ UNCHANGED <<token, meta, sinkBytes, enc, plain, wbuf, dec, srcPos, output, lastRead,
                   lastReadErr, sourceSt, partial>>
    /\ UNCHANGED <<poolVars, lookupVars, closerVars, endpointVars, transportVars, serverVars>>

\* The delegate holds a snapshot of fewer bytes than one block: one that was not
\* written through StreamEncrypter, or one that was cut short.
ShortSnapshot ==
    /\ cpc = "init"
    /\ \E n \in 0..(BlockSize - 1) : \E q \in [1..n -> Byte] : sinkBytes' = q
    /\ cpc' = "stored"
    /\ UNCHANGED <<token, meta, enc, plain, wbuf, dec, srcPos, output, lastRead,
                   lastReadErr, sinkSt, sourceSt, partial>>
    /\ UNCHANGED <<poolVars, lookupVars, closerVars, endpointVars, transportVars, serverVars>>

\* A read of the IV whose byte count is never looked at.
ReadFullNeverFails(have, want) == FALSE

\* io.ReadFull(source, iv): an error (io.EOF, io.ErrUnexpectedEOF) when the source
\* ends before len(iv) bytes
ReadFullFails(have, want) == have < want

\* Open: the delegate's source, then StreamDecrypter: io.ReadFull into a zeroed iv.
OpenSnapshot ==
    /\ cpc \in {"closed", "stored"}
    /\ IF ReadFullFails(Len(sinkBytes), BlockSize)
       THEN /\ cpc' = "openFailed"
            /\ UNCHANGED <<dec, srcPos>>
       ELSE /\ cpc' = "reading"
            /\ dec' = [key |-> newSessionKey(token, meta.index, meta.term),
                       iv |-> [i \in 1..BlockSize |->
                                 IF i <= Len(sinkBytes) THEN sinkBytes[i] ELSE 0],
                       pos |-> 0]
            /\ srcPos' = IF Len(sinkBytes) < BlockSize THEN Len(sinkBytes) ELSE BlockSize
    /\ sourceSt' = "open"
    /\ UNCHANGED <<token, meta, sinkBytes, enc, plain, wbuf, output, lastRead,
                   lastReadErr, sinkSt, partial>>
    /\ UNCHANGED <<poolVars, lookupVars, closerVars, endpointVars, transportVars, serverVars>>

\* implStreamDecrypter.Read: n, err with n > 0, and 0, io.EOF otherwise
ReadError(n, err) == IF n > 0 THEN err ELSE "EOF"

\* Read with XORKeyStream(p, p): the whole buffer goes through the stream.
ReadXorLenWhole(b, n) == b

\* implStreamDecrypter.Read: t.stream.XORKeyStream(p[:n], p[:n])
ReadXorLen(b, n) == n

\* implStreamDecrypter.Read(p) with len(p) = b: the source delivers n bytes, at
\* least one while bytes are left, and 0 with io.EOF at the end.
SourceRead ==
    /\ cpc = "reading"
    /\ \E b \in 1..MaxBuf :
         LET left == Len(sinkBytes) - srcPos IN
         IF left = 0
         THEN /\ cpc' = "eof"
              /\ lastRead' = 0
              /\ lastReadErr' = [src |-> "EOF", ret |-> ReadError(0, "EOF")]
              /\ UNCHANGED <<dec, srcPos, output>>
         ELSE \E n \in 1..(IF b < left THEN b ELSE left) :
              LET got == SubSeq(sinkBytes, srcPos + 1, srcPos + n)
                  \* what the source left in p beyond n is not delivered
                  p == got \o [i \in 1..(ReadXorLen(b, n) - n) |-> 0]
                  pt == XORKeyStream(dec, p)
              IN /\ output' = output \o SubSeq(pt, 1, n)
                 /\ dec' = Advance(dec, ReadXorLen(b, n))
                 /\ srcPos' = srcPos + n
                 /\ lastRead' = n
                 /\ lastReadErr' = [src |-> "nil", ret |-> ReadError(n, "nil")]
                 /\ UNCHANGED cpc
    /\ UNCHANGED <<token, meta, sinkBytes, enc, plain, wbuf, sinkSt, sourceSt, partial>>
    /\ UNCHANGED <<poolVars, lookupVars, closerVars, endpointVars, transportVars, serverVars>>

\* Create whose StreamEncrypter fails: the delegate has produced the sink, and
\* rand.Read fails (nothing written) or sink.Write(iv) returns an error or a
\* count below len(iv). Create returns nil and the error.
CreateFails ==
    /\ cpc = "init"
    /\ \E iv \in [1..BlockSize -> Byte] : \E k \in 0..(BlockSize - 1) :
          sinkBytes' = SubSeq(iv, 1, k)
    /\ sinkSt' = "open"
    /\ cpc' = "createFailed"
    /\ UNCHANGED <<token, meta, enc, plain, wbuf, dec, srcPos, output, lastRead,
                   lastReadErr, sourceSt, partial>>
    /\ UNCHANGED <<poolVars, lookupVars, closerVars, endpointVars, transportVars, serverVars>>

\* implStreamEncrypter.Write(p) of which the sink accepts only k < len(p) bytes:
\* XORKeyStream has gone over all of p, and Write returns k.
PartialSinkWrite ==
    /\ cpc = "writing"
    /\ partial.st = "none"
    /\ \E n \in 2..MaxChunk : \E p \in [1..n -> Byte] : \E k \in 0..(n - 1) :
          /\ Len(plain) + n <= MaxLen
          /\ LET ct == XORKeyStream(enc, p) IN
               /\ wbuf' = WriteBuffer(p, ct)
               /\ sinkBytes' = sinkBytes \o SubSeq(ct, 1, k)
          /\ enc' = Advance(enc, n)
          /\ plain' = plain \o p
          /\ partial' = [st |-> "pending", n |-> k]
    /\ cpc' = "partial"
    /\ UNCHANGED <<token, meta, dec, srcPos, output, lastRead, lastReadErr, sinkSt,
                   sourceSt>>
    /\ UNCHANGED <<poolVars, lookupVars, closerVars, endpointVars, transportVars, serverVars>>

\* The caller writes the rest of the same buffer, p[k:], and the sink takes it.
RetryWrite ==
    /\ cpc = "partial"
    /\ LET p == SubSeq(wbuf, partial.n + 1, Len(wbuf))
           ct == XORKeyStream(enc, p)
       IN /\ wbuf' = SubSeq(wbuf, 1, partial.n) \o WriteBuffer(p, ct)
          /\ sinkBytes' = sinkBytes \o ct
          /\ enc' = Advance(enc, Len(p))
    /\ partial' = [partial EXCEPT !.st = "retried"]
    /\ cpc' = "writing"
    /\ UNCHANGED <<token, meta, plain, dec, srcPos, output, lastRead, lastReadErr, sinkSt,
                   sourceSt>>
    /\ UNCHANGED <<poolVars, lookupVars, closerVars, endpointVars, transportVars, serverVars>>

\* implStreamDecrypter.Read(p) when the source's Read returns n bytes, possibly
\* none, together with an error that is not io.EOF.
SourceReadError ==
    /\ cpc = "reading"
    /\ \E b \in 1..MaxBuf :
         LET left == Len(sinkBytes) - srcPos IN
         \E n \in 0..(IF b < left THEN b ELSE left) :
              LET got == SubSeq(sinkBytes, srcPos + 1, srcPos + n)
                  p == got \o [i \in 1..(ReadXorLen(b, n) - n) |-> 0]
                  pt == XORKeyStream(dec, p)
              IN /\ output' = IF n > 0 THEN output \o SubSeq(pt, 1, n) ELSE output
                 /\ dec' = IF n > 0 THEN Advance(dec, ReadXorLen(b, n)) ELSE dec
                 /\ srcPos' = srcPos + n
                 /\ lastRead' = n
                 /\ lastReadErr' = [src |-> "ioerr", ret |-> ReadError(n, "ioerr")]
    /\ cpc' = "readFailed"
    /\ UNCHANGED <<token, meta, sinkBytes, enc, plain, wbuf, sinkSt, sourceSt, partial>>
    /\ UNCHANGED <<poolVars, lookupVars, closerVars, endpointVars, transportVars, serverVars>>

\* implStreamDecrypter.Close: t.source.Close()
SourceClose ==
    /\ cpc \in {"reading", "eof", "readFailed"}
    /\ sourceSt = "open"
    /\ sourceSt' = "closed"
    /\ UNCHANGED <<token, cpc, meta, sinkBytes, enc, plain, wbuf, dec, srcPos, output,
                   lastRead, lastReadErr, sinkSt, partial>>
    /\ UNCHANGED <<poolVars, lookupVars, closerVars, endpointVars, transportVars, serverVars>>

NextCipher ==
    \/ CreateSnapshot
    \/ ShortSnapshot
    \/ SinkWrite
    \/ SinkClose
    \/ OpenSnapshot
    \/ SourceRead

\* The same with a sink that fails or takes a part of a Write, and a source
\* whose Read fails.
NextCipherFaults ==
    \/ NextCipher
    \/ CreateFails
    \/ PartialSinkWrite
    \/ RetryWrite
    \/ SourceReadError
    \/ SourceClose


\* The components that a specification leaves alone start from one fixed state.
PoolIdle == RaftServiceName = "raft"
CipherIdle == token = "123" /\ meta = [index |-> 100, term |-> 1]

EndpointIdle ==
    RaftAddress = EmptyString /\ RPCBean = "" /\ rpcListenAddress = EmptyString

TransportIdle ==
    advertise = NilAddr /\ listenerAddr = TCPAddr(<<10, 0, 0, 1>>, 8000)

ServerIdle == transport = "open" /\ serfMembers = {}

InitAll ==
    /\ InitPool /\ InitCloser /\ InitEndpoint /\ InitTransport /\ InitLookup /\ InitCipher
    /\ InitLock /\ InitBridge /\ InitServer

InitOfLookup == InitAll /\ PoolIdle /\ CipherIdle /\ EndpointIdle /\ TransportIdle /\ ServerIdle
InitOfPool == InitAll /\ CipherIdle /\ EndpointIdle /\ TransportIdle /\ ServerIdle
InitOfCipher == InitAll /\ PoolIdle /\ EndpointIdle /\ TransportIdle /\ ServerIdle
InitOfEndpoint == InitAll /\ PoolIdle /\ CipherIdle /\ TransportIdle /\ ServerIdle
InitOfTransport == InitAll /\ PoolIdle /\ CipherIdle /\ EndpointIdle /\ ServerIdle

SpecLookup == InitOfLookup /\ [][NextLookup]_vars

SpecLookupAPI == InitOfLookup /\ [][NextLookupAPI]_vars

SpecLock == InitOfLookup /\ [][NextLock]_vars

SpecBridge == InitOfLookup /\ [][NextBridge]_vars

InitOfServer ==
    InitAll /\ PoolIdle /\ CipherIdle /\ EndpointIdle /\ TransportIdle

SpecStop == InitOfServer /\ [][NextStop]_vars

SpecServe == InitOfServer /\ [][NextServe]_vars

SpecCipher == InitOfCipher /\ [][NextCipher]_vars

SpecCipherFaults == InitOfCipher /\ [][NextCipherFaults]_vars

SpecPool == InitOfPool /\ [][NextPool]_vars

\* Close and Destroy call by call, on a pool without a health-check service name.
InitOfPoolClose == InitOfPool /\ RaftServiceName = ""

SpecPoolClose == InitOfPoolClose /\ [][NextPoolClose]_vars

SpecPoolShutdown == InitOfPoolClose /\ [][NextPoolShutdown]_vars

SpecEndpoint == InitOfEndpoint /\ [][NextEndpoint]_vars

SpecTransport == InitOfTransport /\ [][NextTransport]_vars

\* GetAPIConn runs in a goroutine the scheduler keeps running, and a dial ends.
CallProgress(c) ==
    LoadStep(c) \/ WaitStep(c) \/ LoadOrStoreStep(c) \/ DialFail(c) \/ DialOk(c) \/ StoreStep(c)

FairSpecPool ==
    InitOfPool /\ [][NextPool]_vars /\ \A c \in Callers : WF_vars(CallProgress(c))

(***************************************************************************)
(* Properties of the connection pool                                       *)
(***************************************************************************)

Started(a) == {c \in Callers : pc[c] # "idle" /\ target[c] = a}
Returned(a) == {c \in Started(a) : pc[c] = "done"}
DialAttempts(a) == {c \in Started(a) : dialed[c]}
NoFailure(a) == \A c \in Started(a) : result[c].t # "err"
NoEviction(a) == \A k \in evicted : target[k] # a

\* C1: while every dial for a peer succeeds and nothing is evicted for it, the calls
\* for that peer make at most one dial attempt (exactly one once a call has
\* returned), every returned call holds the same connection, and a call that did
\* not dial returns the connection the pool holds.
C1_OneDialSameConn ==
    \A a \in PoolAddrs :
        (NoFailure(a) /\ NoEviction(a)) =>
            /\ Cardinality(DialAttempts(a)) <= 1
            /\ Returned(a) # {} => Cardinality(DialAttempts(a)) = 1
            /\ \A c, d \in Returned(a) : result[c].t = "conn" /\ result[c] = result[d]
            /\ \A c \in Returned(a) : ~dialed[c] => clients[a] = Client(result[c].conn)

\* Three calls for one peer have returned the same connection; one dialed, one
\* waited for that dial, and nothing was evicted.
C1_Witness ==
    /\ Returned(GoodAddr) = Callers
    /\ NoEviction(GoodAddr)
    /\ \E c \in Callers : dialed[c] /\ \A d \in Callers : result[d] = Conn(c)
    /\ \E d \in Callers : ~dialed[d] /\ waitOn[d] # 0

\* C2: at most one doConnect is in progress per peer address.
C2_OneInFlightDial ==
    \A a \in PoolAddrs : Cardinality({c \in Started(a) : pc[c] = "dial"}) <= 1

\* A dial is in flight with another call blocked on it, after an earlier
\* connection of the peer was evicted by its watch.
C2_Witness ==
    \E c, d \in Callers :
        /\ pc[c] = "dial" /\ pc[d] = "wait" /\ waitOn[d] = c
        /\ \E k \in evicted : target[k] = target[c]

\* C3: a call that waited on a dial that failed returns that dial's error.
C3_WaitersGetTheError ==
    \A c, o \in Callers :
        (pc[c] = "wait" /\ waitOn[c] = o /\ result[o] = Err(o))
            ~> (pc[c] = "done" /\ result[c] = Err(o))

\* C4: a call that returned an error leaves no entry of its own in the pool that
\* later calls for the peer would take for a dial in flight.
C4_FailedCallLeavesNoEntry ==
    \A c \in Callers :
        (pc[c] = "done" /\ result[c].t = "err") => clients[target[c]] # Stub(c)

\* C5: a call never returns a connection whose watch had ended before the call
\* started.
C5_NoStaleConnection ==
    \A d \in Callers :
        (pc[d] = "done" /\ result[d].t = "conn") => result[d].conn \notin staleAtStart[d]

\* C24: every GetAPIConn call that has started eventually returns a connection or
\* an error; no call blocks or retries forever once the dial it waited on has
\* finished, whether that dial succeeded or failed.
C24_EveryCallReturns ==
    \A c \in Callers : (pc[c] # "idle") ~> (pc[c] = "done")

\* C25: every connecting placeholder in the pool belongs to a GetAPIConn call
\* that is still in progress and has not yet closed its wait signal.
C25_StubOwnerInProgress ==
    \A a \in PoolAddrs :
        clients[a].t = "stub" =>
            /\ pc[clients[a].owner] \in {"dial", "store"}
            /\ ~StubClosed(clients[a].owner)

\* The ways the health check of a connection fails other than by the peer not
\* implementing it: the Check call fails, the Watch stream cannot be opened, the
\* stream ends (with or without a deletion by removeClient).
HealthFailures == {"checkerr", "watcherr", "stream", "evicted"}

\* C26: once the health check of an established connection has failed for a
\* reason other than Unimplemented, the pool no longer holds the entry of that
\* connection, and no GetAPIConn call returns an error other than its own dial's.
C26_HealthFailureEvicts ==
    /\ \A k \in Conns :
          (hc[k] = "done" /\ hcEnd[k] \in HealthFailures /\ pc[k] = "done") =>
              clients[target[k]] # Client(k)
    /\ \A c \in Callers :
          (pc[c] = "done" /\ result[c].t = "err") => (dialed[c] /\ result[c] = Err(c))

\* C27: removeClient(address, conn) deletes a pool entry only when, at the moment
\* of the deletion, the entry is established and holds exactly conn; whatever the
\* interleaving with GetAPIConn calls, no step removes a connecting placeholder
\* or the entry of another connection.
C27_EvictionByIdentity ==
    [][\A a \in PoolAddrs :
          (clients[a] # Absent /\ clients'[a] = Absent) =>
              \E k \in Conns :
                  /\ hc[k] = "del" /\ target[k] = a
                  /\ clients[a] = Client(k)]_vars

\* One removeClient has deleted the entry of its own connection, and another one,
\* run while its call had not yet stored the connection, has found the
\* placeholder of the address and left it in place.
C27_Witness ==
    \E j, k \in Conns :
        /\ j \in evicted /\ target[j] = target[k]
        /\ hc[k] = "done" /\ hcEnd[k] = "stream"
        /\ pc[k] = "store" /\ clients[target[k]] = Stub(k)

\* Connection k was stored by its call and no watch runs on it: no service name
\* is configured, or the peer answered the Check with Unimplemented.
PooledWithoutWatch(k) ==
    /\ pc[k] = "done" /\ result[k] = Conn(k)
    /\ RaftServiceName = "" \/ (hc[k] = "done" /\ hcEnd[k] = "unimplemented")

\* C28: a connection stored in the pool on which no watch runs (no service name
\* configured, or the peer reported health checking as unimplemented) is never
\* evicted: its entry stays in the pool, and a call for the peer that returned
\* anything else returned an earlier connection that was evicted before.
C28_NoWatchNoEviction ==
    \A k \in Conns :
        PooledWithoutWatch(k) =>
            /\ k \notin evicted
            /\ clients[target[k]] = Client(k)
            /\ \A c \in Returned(target[k]) :
                  result[c] # Conn(k) =>
                      (result[c].t = "conn" /\ result[c].conn \in evicted)

\* The peer answered Unimplemented for a connection dialed after an earlier one
\* was evicted, and a call that did not dial returned that connection.
C28_Witness ==
    \E k \in Conns, c \in Callers :
        /\ RaftServiceName # "" /\ PooledWithoutWatch(k)
        /\ \E j \in evicted : target[j] = target[k]
        /\ c # k /\ ~dialed[c] /\ pc[c] = "done" /\ result[c] = Conn(k)

\* No service name is configured and every call has returned the one connection.
C28_WitnessNoService ==
    \E k \in Conns :
        /\ RaftServiceName = "" /\ PooledWithoutWatch(k)
        /\ hc[k] = "off"
        /\ \A c \in Callers : pc[c] = "done" /\ result[c] = Conn(k)

\* The call cannot take a step: it is at the receive from a wait signal that is
\* not closed (no other step of GetAPIConn waits for another goroutine).
Blocked(c) == pc[c] = "wait" /\ ~StubClosed(waitOn[c])

\* Blocked(c) is the only way a call that has started and not returned is
\* without an enabled step.
BlockedIsDisabled ==
    \A c \in Callers :
        Blocked(c) <=> (pc[c] \notin {"idle", "done"} /\ ~ENABLED GetAPIConn(c))

\* C30: a GetAPIConn call is blocked only by a dial in flight for its own peer
\* address: the entry of that address is then the placeholder of a call that is
\* in doConnect or about to store; a dial for another address blocks nobody.
C30_BlockedOnlyByOwnPeer ==
    \A c \in Callers :
        Blocked(c) =>
            \E d \in Callers :
                /\ waitOn[c] = d /\ target[d] = target[c]
                /\ pc[d] \in {"dial", "store"}
                /\ clients[target[c]] = Stub(d)

\* Dials for two different addresses are in flight at the same time, each call
\* having gone on while the other's placeholder was in the pool, and a third
\* call is blocked on the dial for its own address.
C30_Witness ==
    \E c, d, e \in Callers :
        /\ pc[c] = "dial" /\ pc[d] = "dial" /\ target[c] # target[d]
        /\ Blocked(e) /\ waitOn[e] = d /\ target[e] = target[d]

(***************************************************************************)
(* Properties of the routing table and of the membership bridge            *)
(***************************************************************************)

ReachableByAddr(T, d) ==
    AddrString(d.Addr) \in DOMAIN T.a2s /\ T.a2s[AddrString(d.Addr)] = d
ReachableById(T, d) == d.ID \in DOMAIN T.id2s /\ T.id2s[d.ID] = d
Held(T) == {T.a2s[a] : a \in DOMAIN T.a2s} \cup {T.id2s[i] : i \in DOMAIN T.id2s}

\* C6: a descriptor is reachable through Server(address) iff it is reachable
\* through its ID.
C6_IndicesConsistent ==
    \A d \in Held(Tables) : ReachableByAddr(Tables, d) <=> ReachableById(Tables, d)

\* What the tags of a member must satisfy, as the bridge documents it.
TagsValid(m) ==
    /\ m.Tags["role"] = ExpectedRole
    /\ AtoiOk(m.Tags["port"]) /\ AtoiOk(m.Tags["raft-port"]) /\ AtoiOk(m.Tags["grpc-port"])
ComputedAddress(m) == <<m.Addr, m.Tags["port"]>>
IsMemberEvent == lastEvent.type \in MemberEventTypes
ValidMembers == {lastEvent.members[i] : i \in {j \in DOMAIN lastEvent.members :
                                                   TagsValid(lastEvent.members[j])}}

C8_InvalidMembersSkipped ==
    IsMemberEvent =>
        /\ Tables = eventHandlerLAN(PrevTables,
                        [lastEvent EXCEPT !.members = SelectSeq(@, TagsValid)])
        /\ ValidMembers = {} => Tables = PrevTables
        /\ \A m \in ValidMembers :
              IF lastEvent.type \in RemovalEventTypes
              THEN m.Tags["id"] \notin DOMAIN idToServer
              ELSE m.Tags["id"] \in DOMAIN idToServer

\* A Join listed a member of another role before a valid one: the valid one is in
\* the table, the other is not.
C8_Witness ==
    /\ lastEvent = [type |-> "join", members |-> <<MemberOtherRole, MemberN2>>]
    /\ "n2" \in DOMAIN idToServer
    /\ "n3" \notin DOMAIN idToServer

\* C9: after a Leave, Failed or Reap event, no valid member of the event is found
\* by ServerAddr(id) or by Server(address).
C9_RemovedMemberNotFound ==
    (IsMemberEvent /\ lastEvent.type \in RemovalEventTypes) =>
        \A m \in ValidMembers :
            /\ ~ServerAddr(Tables, m.Tags["id"]).found
            /\ Server(Tables, ComputedAddress(m)) = Nil

\* A Failed event removed n1, which was in the table under the same ID and address.
C9_Witness ==
    /\ lastEvent = [type |-> "failed", members |-> <<MemberN1>>]
    /\ ServerAddr(PrevTables, "n1") = [found |-> TRUE, addr |-> <<"ip1", "7000">>]
    /\ Server(PrevTables, <<"ip1", "7000">>) # Nil
    /\ Server(PrevTables, <<"ip1", "7000">>).ID = "n1"

\* C19: once Close has run, no established entry of the pool holds a connection
\* that Close closed, so that no later GetAPIConn can return one.
C19_CloseRemovesEntries ==
    closeOnce =>
        \A a \in PoolAddrs :
            clients[a].t = "conn" => clients[a].conn \notin connClosed

\* C18: however many Close and Destroy calls there are and however they
\* interleave, the function that closes the pooled connections is started at most
\* once, no connection is closed twice, a call that waits does so only for the
\* running one, and every call that has returned returned nil.
C18_CloseIdempotent ==
    /\ closeRuns <= 1
    /\ \A k \in Conns : closeCount[k] <= 1
    /\ \A i \in Closers :
          /\ closePc[i] = "done" => closeRet[i] = "nil"
          /\ (closePc[i] = "do" /\ ~closeOnce /\ onceHolder # 0) =>
                closePc[onceHolder] = "range"

\* Every caller has returned, one of them called Destroy and one Close, and a
\* pooled connection was closed.
C18_Witness ==
    /\ \A i \in Closers : closePc[i] = "done"
    /\ \E i, j \in Closers : CloseVia(i) = "Close" /\ CloseVia(j) = "Destroy"
    /\ \E k \in Conns : closeCount[k] = 1

\* A second caller is in Do while the first one runs the Range.
C18_WitnessConcurrent ==
    \E i, j \in Closers :
        /\ closePc[i] = "range" /\ closePc[j] = "do"
        /\ \E k \in Conns : closeCount[k] = 1

\* C29: once Close has returned, the established entry of every call whose dial
\* was in flight while Close ran holds a closed connection.
C29_CloseCoversInFlightDials ==
    closeOnce =>
        \A c \in dialsAtClose :
            clients[target[c]] = Client(c) => c \in connClosed

(***************************************************************************)
(* Properties of the endpoint derivation                                   *)
(***************************************************************************)

\* The RPC listen address the configuration names: none without an RPC bean.
ConfiguredRpcAddress == IF RPCBean = "" THEN EmptyString ELSE rpcListenAddress

PortsParse ==
    /\ AtoiOk(RaftAddress[Len(RaftAddress)])
    /\ AtoiOk(rpcListenAddress[Len(rpcListenAddress)])

\* Every configured address that is not empty ends in a numeric port.
PortsWellFormed ==
    \A a \in {RaftAddress, ConfiguredRpcAddress} : a = EmptyString \/ AtoiOk(a[Len(a)])

ConfiguredOffset ==
    Atoi(rpcListenAddress[Len(rpcListenAddress)]) - Atoi(RaftAddress[Len(RaftAddress)])

\* GetAPIEndpoint(host:p) is host:(p + portDiff), and h1:9000 for h1:8000 and an
\* offset of 1000.
EndpointIsHostPlusOffset ==
    lastEndpoint # NoEndpointCall =>
        LET a == lastEndpoint.addr IN
        /\ IF Len(a) = 2 /\ AtoiOk(a[Len(a)])
           THEN /\ lastEndpoint.err = "nil"
                /\ lastEndpoint.endpoint = <<a[1], Itoa(Atoi(a[2]) + portDiff)>>
           ELSE lastEndpoint.err # "nil"
        /\ (a = <<"h1", "8000">> /\ portDiff = 1000) =>
              lastEndpoint.endpoint = <<"h1", "9000">>

\* C20 as stated: GetAPIEndpoint(host:p) is host:(p + offset), and PostConstruct
\* leaves the offset 0 when the raft listen address or the RPC listen address is
\* empty (and the other one, if set, ends in a numeric port).
C20_OffsetZeroWhenEitherEmpty ==
    /\ EndpointIsHostPlusOffset
    /\ (/\ built # "new"
        /\ PortsWellFormed
        /\ (RaftAddress = EmptyString \/ ConfiguredRpcAddress = EmptyString))
          => (built = "ok" /\ portDiff = 0)
    /\ (built = "ok" /\ RaftAddress # EmptyString /\ ConfiguredRpcAddress # EmptyString)
          => portDiff = ConfiguredOffset

\* C20, amended: the offset is 0 when the raft listen address or the RPC bean
\* reference is empty; with both set, PostConstruct fails if the bean's listen
\* address is empty or a port does not parse, and else the offset is the RPC
\* listen port minus the raft listen port.
C20_EndpointDerivation ==
    /\ EndpointIsHostPlusOffset
    /\ built # "new" =>
          IF RaftAddress = EmptyString \/ RPCBean = ""
          THEN built = "ok" /\ portDiff = 0
          ELSE IF rpcListenAddress = EmptyString \/ ~PortsParse
          THEN built = "failed" /\ portDiff = 0
          ELSE built = "ok" /\ portDiff = ConfiguredOffset

\* h1:8000 with the offset 1000 of ":8000" and ":9000" gave h1:9000.
C20_Witness ==
    /\ RaftAddress = <<"", "8000">> /\ rpcListenAddress = <<"", "9000">>
    /\ portDiff = 1000
    /\ lastEndpoint = [addr |-> <<"h1", "8000">>, endpoint |-> <<"h1", "9000">>,
                        err |-> "nil"]

(***************************************************************************)
(* Properties of the raft transport                                        *)
(***************************************************************************)

\* The address the transport is to use: the advertise address if given.
EffectiveAddr == IF advertise # NilAddr THEN advertise ELSE listenerAddr

\* 0.0.0.0 as 4 bytes and as 16 bytes, and ::
WildcardIPs == {<<0, 0, 0, 0>>, IPv4zero, IPv6unspecified}

\* C22: newTCPTransport returns an error and does not invoke transportCreator
\* when the effective address is not a TCP address or its IP is nil or a
\* wildcard, and in every other case returns no error and invokes it once.
C22_TransportNeedsConcreteAddr ==
    tpc # "new" =>
        IF \/ EffectiveAddr.net # "tcp"
           \/ EffectiveAddr.IP = NilIP
           \/ EffectiveAddr.IP \in WildcardIPs
        THEN /\ tpc = "failed" /\ transErr # "nil"
             /\ creatorCalls = 0 /\ stream = NoStreamLayer
        ELSE /\ tpc = "ok" /\ transErr = "nil"
             /\ creatorCalls = 1 /\ stream # NoStreamLayer

\* Construction failed for an advertise address 0.0.0.0:8000 over a listener
\* bound to a concrete address.
C22_Witness ==
    /\ tpc = "failed"
    /\ advertise = TCPAddr(<<0, 0, 0, 0>>, 8000)
    /\ listenerAddr = TCPAddr(<<10, 0, 0, 1>>, 8000)
    /\ creatorCalls = 0

\* C23: Addr() returns the advertise address if one was given and the
\* listener's address otherwise, inside newTCPTransport and afterwards.
C23_AddrPrefersAdvertise ==
    /\ tpc # "new" => effective = EffectiveAddr
    /\ addrResult # NoAddrCall =>
          addrResult = (IF advertise # NilAddr THEN advertise ELSE listenerAddr)

\* Addr() answered with the advertise address although the listener is bound to
\* another one.
C23_Witness ==
    /\ advertise = TCPAddr(<<10, 0, 0, 1>>, 8000)
    /\ listenerAddr = TCPAddr(IPv6unspecified, 8000)
    /\ addrResult = advertise

\* Addr() answered with the listener's address: no advertise address was given.
C23_WitnessListener ==
    /\ advertise = NilAddr
    /\ addrResult = listenerAddr

(***************************************************************************)
(* Properties of the routing table called directly                         *)
(***************************************************************************)

\* C14 as stated: ServerAddr of an ID that is not in the table, and Server of an
\* address that is not in the table, give a not-found result and no error.
C14_UnknownIsNotAnError ==
    /\ (lastCall.op = "ServerAddr" /\ lastCall.id \notin DOMAIN idToServer) =>
            lastCall.err = NoError
    /\ (lastCall.op = "Server" /\ lastCall.addr \notin DOMAIN addressToServer) =>
            lastCall.server = Nil

\* C14, amended: ServerAddr of an ID that is not in the table returns the empty
\* address and an error value naming the ID, and no error for an ID that is in
\* the table; Server of an address that is not in the table returns nil.
C14_UnknownIdIsAnErrorValue ==
    /\ lastCall.op = "ServerAddr" =>
          IF lastCall.id \in DOMAIN idToServer
          THEN lastCall.err = NoError
          ELSE /\ lastCall.err # NoError
               /\ lastCall.err.id = lastCall.id
               /\ lastCall.addr = <<>>
    /\ (lastCall.op = "Server" /\ lastCall.addr \notin DOMAIN addressToServer) =>
            lastCall.server = Nil

\* ServerAddr was called with an ID that a non-empty table does not hold.
C14_Witness ==
    /\ lastCall.op = "ServerAddr"
    /\ lastCall.id = "n9"
    /\ DOMAIN idToServer # {}

\* C15: after AddServer(d) both lookups give d, whatever the keys held before,
\* and a second AddServer(d) changes nothing.
C15_AddServerUpsert ==
    lastCall.op = "AddServer" =>
        LET d == lastCall.server IN
        /\ Server(Tables, AddrString(d.Addr)) = d
        /\ ServerAddr(Tables, d.ID) = [found |-> TRUE, addr |-> AddrString(d.Addr)]
        /\ idToServer[d.ID] = d
        /\ AddServer(Tables, d) = Tables
        /\ (Server(PrevTables, AddrString(d.Addr)) = d /\ ReachableById(PrevTables, d))
              => Tables = PrevTables

\* AddServer(d2) came after AddServer(d1) with the same ID and address and other
\* data.
C15_Witness ==
    /\ lastCall = [op |-> "AddServer", server |-> ServerN1Failed]
    /\ Server(PrevTables, AddrString(ServerN1.Addr)) = ServerN1
    /\ prevIdToServer = [x \in {"n1"} |-> ServerN1]

C16_WitnessAbsent ==
    /\ lastCall = [op |-> "RemoveServer", server |-> ServerN2]
    /\ DOMAIN prevAddressToServer = {<<"ip1", "7001">>}
    /\ DOMAIN prevIdToServer = {"n1"}

\* C17: the slice a Servers() call returned holds the same elements in the same
\* order after any later AddServer and RemoveServer calls.
C17_ServersIsACopy ==
    servers # NoSlice => SliceItems(servers) = serversAtReturn

\* A returned slice of one element, and a table that has been emptied since.
C17_Witness ==
    /\ servers # NoSlice
    /\ Len(serversAtReturn) = 1
    /\ lastCall.op = "RemoveServer"
    /\ DOMAIN addressToServer = {}

\* C21: after a User event, whatever its name and payload, and after a Query
\* event, both indices of the routing table are what they were before the event.
C21_UserAndQueryLeaveTable ==
    lastEvent.type \in {"user", "query"} =>
        /\ addressToServer = prevAddressToServer
        /\ idToServer = prevIdToServer

\* A "new-leader" event of this application naming n1 came while n1 was in the
\* table.
C21_Witness ==
    /\ lastEvent = [type |-> "user", name |-> "raftapp:new-leader", payload |-> "n1"]
    /\ "n1" \in DOMAIN idToServer
    /\ DOMAIN addressToServer # {}

\* A Query event came while the table held a server.
C21_WitnessQuery ==
    /\ lastEvent = [type |-> "query"]
    /\ DOMAIN idToServer # {}

\* C32: after an Update event that names, with a changed address, a member whose
\* ID the table already held, ServerAddr(id) returns the new address and
\* Server(old address) returns no descriptor of that member.
C32_UpdateMovesMember ==
    lastEvent.type = "update" =>
        \A i \in DOMAIN lastEvent.members :
            LET p == ParseServerTags(lastEvent.members[i], ExpectedRole)
                id == p.server.ID
                old == AddrString(prevIdToServer[id].Addr)
            IN  (/\ p.ok
                 /\ id \in DOMAIN prevIdToServer
                 /\ old # AddrString(p.server.Addr)) =>
                    /\ ServerAddr(Tables, id) =
                           [found |-> TRUE, addr |-> AddrString(p.server.Addr)]
                    /\ Server(Tables, old) # Nil => Server(Tables, old).ID # id

(***************************************************************************)
(* Properties of the snapshot cipher                                       *)
(***************************************************************************)

\* C10: what Read delivers is a prefix of what was written, and all of it at the
\* end of the stream, whatever the Write and Read calls were.
C10_RoundTrip ==
    /\ cpc \in {"reading", "eof"} =>
          Len(output) <= Len(plain) /\ output = SubSeq(plain, 1, Len(output))
    /\ cpc = "eof" => output = plain

\* Three bytes written in more than one Write have been read back in more than
\* one Read.
C10_Witness ==
    /\ cpc = "reading"
    /\ Len(plain) = 3 /\ output = plain
    /\ Len(wbuf) < Len(plain)
    /\ lastRead < Len(output)

\* C11: the session key of a created snapshot differs from the session key of
\* every snapshot with the same token and another (index, term).
C11_KeyPerSnapshot ==
    cpc # "init" =>
        \A s \in Snapshots :
            s # meta => newSessionKey(token, s.index, s.term) # enc.key

C13_ShortSourceFailsOpen ==
    (cpc \in {"reading", "eof", "openFailed"} /\ Len(sinkBytes) < BlockSize) =>
        /\ cpc = "openFailed"
        /\ dec = NoStream
        /\ output = <<>>

\* Open failed on a source of no bytes.
C13_Witness ==
    /\ cpc = "openFailed"
    /\ Len(sinkBytes) = 0

\* C35: the sink starts with exactly one block, the IV, written by Create before
\* any ciphertext; after it the sink holds one byte per byte written. Open
\* consumes exactly that block, and at the end of the stream the reader has
\* delivered as many bytes as were written.
C35_OneIVBlock ==
    /\ cpc \in {"writing", "closed", "reading", "eof"} =>
          /\ Len(enc.iv) = BlockSize
          /\ SubSeq(sinkBytes, 1, BlockSize) = enc.iv
          /\ Len(sinkBytes) = BlockSize + Len(plain)
    /\ cpc \in {"reading", "eof"} =>
          /\ dec.iv = enc.iv
          /\ srcPos = BlockSize + Len(output)
    /\ cpc = "eof" => Len(output) = Len(plain)

\* A snapshot of full length was written, closed, opened and read to its end.
C35_Witness ==
    /\ cpc = "eof"
    /\ Len(plain) = MaxLen
    /\ Len(output) = MaxLen
    /\ Len(sinkBytes) = BlockSize + MaxLen

\* C36: when the sink took only a part of a Write and the caller then wrote the
\* rest of the same buffer, what the reader delivers at the end of the stream
\* is the plaintext the caller wrote.
C36_PartialWriteKeepsData ==
    (partial.st = "retried" /\ cpc = "eof") => output = plain

\* C37: when the source's Read returns no bytes and an error other than io.EOF,
\* Read returns that error.
C37_ReadSurfacesError ==
    (lastReadErr.src = "ioerr" /\ lastRead = 0) => lastReadErr.ret = "ioerr"

\* C38: after Create has failed with the delegate's sink in hand, the sink is
\* cancelled or closed; after Open has failed with the delegate's source in
\* hand, the source is closed.
C38_FailureReleases ==
    /\ (cpc = "createFailed" /\ sinkSt # "none") => sinkSt \in {"cancelled", "closed"}
    /\ (cpc = "openFailed" /\ sourceSt # "none") => sourceSt = "closed"

(***************************************************************************)
(* Properties of the routing table under its lock and of the event channel *)
(***************************************************************************)

\* C31: no ServerAddr, Server or Servers call reads the maps while AddServer or
\* RemoveServer has changed only one of the two indices: a goroutine holds the
\* read lock only while no writer holds the mutex, and no reading call has read
\* between a writer's two map operations.
C31_WritesAtomicForReaders ==
    /\ mutexR # {} => mutexW = 0
    /\ \A r \in Readers :
          /\ ~sawHalf[r]
          /\ r \in mutexR => \A w \in Writers : wpc[w] \notin {"locked", "half", "written"}

\* Two reading calls hold the read lock together and have read the table a
\* writer has changed, while the other writer waits for the mutex.
C31_Witness ==
    /\ \A r \in Readers : rpc[r] = "read" /\ r \in mutexR
    /\ \E w, x \in Writers : wpc[w] = "done" /\ wpc[x] = "idle"
    /\ DOMAIN addressToServer # {}

\* A writer stands between its two map operations, the two indices disagree, and
\* a reading call has not got the read lock.
C31_WitnessHalf ==
    \E w \in Writers, r \in Readers :
        /\ wpc[w] = "half" /\ rpc[r] = "idle"
        /\ DOMAIN addressToServer # {} /\ DOMAIN idToServer = {}

RECURSIVE ApplyEvents(_, _)
\* The table after the handler's switch has run on the events of q, one after
\* the other.
ApplyEvents(T, q) == IF q = <<>> THEN T ELSE ApplyEvents(eventHandlerLAN(T, Head(q)), Tail(q))

\* The events the handler has taken from the channel, in the order they were sent.
Processed == SubSeq(sent, 1, Len(sent) - Len(serfChLAN))

\* C33: the table is what applying the events received so far, one at a time in
\* the order they were sent, makes of the empty table.
C33_EventsAppliedInOrder ==
    Tables = ApplyEvents([a2s |-> EmptyMap, id2s |-> EmptyMap], Processed)

\* Three events were handled whose order matters: the last two the other way
\* round would have left another table.
C33_Witness ==
    /\ Len(Processed) = 3
    /\ serfChLAN = <<>>
    /\ Tables # ApplyEvents([a2s |-> EmptyMap, id2s |-> EmptyMap],
                            <<Processed[1], Processed[3], Processed[2]>>)

\* C34: once Serve has returned nil and no membership event has been handled,
\* every current member of the membership engine whose tags parse for the
\* expected role is found in the routing table, by its id and by its address.
C34_ServeRebuildsTable ==
    (servePc = "done" /\ serveErr = "nil" /\ lastEvent = NoEvent) =>
        \A m \in serfMembers :
            LET p == ParseServerTags(m, ExpectedRole)
            IN  p.ok => /\ ReachableById(Tables, p.server)
                        /\ ReachableByAddr(Tables, p.server)

\* C39: when a Stop that was called after Serve had returned nil has returned,
\* the consensus instance is shut down, the transport and the listener are
\* closed, and Active() is false.
C39_StopReleases ==
    \A i \in StopCallers :
        (stopPc[i] = "done" /\ stopAfterServe[i]) =>
            /\ raftSt = "shutdown"
            /\ transport = "closed"
            /\ listener = "closed"
            /\ ~running

\* C40: when Serve was called and a Shutdown has returned, Alive() is false, and
\* a consensus instance that Serve has created is shut down.
C40_ShutdownIsFinal ==
    (\E i \in StopCallers : shutPc[i] = "done") =>
        /\ ~alive
        /\ raft # "nil" => raftSt = "shutdown"

\* The first Shutdown started while Serve was between its first statement and its
\* return, and the instance Serve created survives the returned Shutdown.
ShutdownDuringServeLeavesInstance ==
    /\ serveAtShutdown \in {"newraft", "store"}
    /\ \E i \in StopCallers : shutPc[i] = "done"
    /\ servePc = "done" /\ serveErr = "nil"
    /\ alive /\ raftSt = "running"

====
